---- MODULE Spec2Model ----
(***************************************************************************)
(* Merkle Mountain Range engine (bankaixyz/mmr): index arithmetic, hasher  *)
(* contract, typed key/value store and the append / proof / verify engine. *)
(*                                                                         *)
(* Hash words are modelled as terms.  <<"W", n>> is the 32-byte big-endian *)
(* encoding of the number n (ZERO_HASH is <<"W", 0>>), <<"K", l, r>> is    *)
(* the Keccak-256 digest of l || r and <<"P", l, r>> the Poseidon digest   *)
(* of the field elements l, r.  Distinct terms are distinct words, i.e.    *)
(* the hashers are collision free.                                         *)
(***************************************************************************)
EXTENDS Integers, Sequences, FiniteSets, TLC

VARIABLES
    store,      \* the shared Store: a function StoreKey -> StoreValue
    cached,     \* cached[e]: Mmr.cached_counts of engine e (NoCounts = None)
    pc,         \* pc[e]: where engine e is inside batch_append
    pend,       \* pend[e]: locals of the batch_append in flight on engine e
    res,        \* res[e]: the value returned by the last finished call of e
    hist,       \* hist[e]: values of the successful appends of e, in order
    lastCall,   \* lastCall[e]: the last successful batch_append of e
    mmrId,      \* mmrId[e]: Mmr.mmr_id of engine e
    hasher,     \* the Hasher variant shared by the engines
    limit,      \* the number of leaves an engine appends in this run
    failed,     \* failed[e]: the batch_append of e whose set_many failed last,
                \* until a successful call that is not its retry
    drifted,    \* drifted[e]: whether, when the last append of e was called,
                \* its cached counts were not the persisted ones ("no"), and
                \* whether the cached elements_count was "zero" or "nonzero"
    calls,      \* calls[e]: the store calls that the call of e in flight, or its
                \* last finished call, has issued, in order, with their keys
    tx,         \* the host's transaction on the relational store: whether it
                \* is open, how it ended, its uncommitted writes, the store
                \* when it began and the batches appended in it
    base        \* base[e]: whether the tree of e was created from the peaks of
                \* another tree, and the leaves that tree had then

vars == <<store, cached, pc, pend, res, hist, lastCall, mmrId, hasher, limit, failed,
          drifted, calls, tx, base>>

----------------------------------------------------------------------------
(* Bounds                                                                  *)

MaxLeaves == 4          \* leaves appended to one tree
MaxBatch == 2           \* values of one batch_append
NumValues == 2          \* distinct leaf values offered to append
MaxCreateSize == 4      \* largest elements_count given to create_from_peaks
MaxSize == 64           \* largest size given to the index arithmetic on its own
OverflowMargin == 8     \* how far below u64::MAX the trees created near it start

----------------------------------------------------------------------------
(* Results: Result<T, MmrError>                                            *)

Ok(v) == [err |-> "none", val |-> v]
Err(e) == [err |-> e, val |-> <<>>]
IsOk(r) == r.err = "none"
\* r? : the value of r handed on, or its error returned
\* u64::MAX, scaled to a seven-bit counter: the largest value a u64 holds
U64_MAX == 127

\* u64::wrapping_add: the sum reduced to the width of the counter
wrapping_add(a, b) == Ok((a + b) % (U64_MAX + 1))

\* a.checked_add(b).ok_or(MmrError::Overflow)
checked_add(a, b) == IF a + b > U64_MAX THEN Err("Overflow") ELSE Ok(a + b)

Try(r, F(_)) == IF r.err = "none" THEN F(r.val) ELSE r
\* r is the success carrying v
IsOkWith(r, v) == r.err = "none" /\ r.val = v

----------------------------------------------------------------------------
(* Index arithmetic (src/mmr/helpers.rs)                                   *)

RECURSIVE Pow2(_)
Pow2(n) == IF n = 0 THEN 1 ELSE 2 * Pow2(n - 1)

RECURSIVE bit_length(_)
bit_length(num) == IF num = 0 THEN 0 ELSE 1 + bit_length(num \div 2)

RECURSIVE count_ones(_)
count_ones(n) == IF n = 0 THEN 0 ELSE (n % 2) + count_ones(n \div 2)

RECURSIVE trailing_ones(_)
trailing_ones(n) == IF n % 2 = 0 THEN 0 ELSE 1 + trailing_ones(n \div 2)

\* the decomposition that returns the peaks found whatever remains
RECURSIVE find_peaks_loop_keeping(_, _, _, _)
find_peaks_loop_keeping(mountain_elements_count, remaining, shift, peaks) ==
    IF mountain_elements_count = 0
    THEN peaks
    ELSE IF mountain_elements_count <= remaining
         THEN find_peaks_loop_keeping(mountain_elements_count \div 2,
                                      remaining - mountain_elements_count,
                                      shift + mountain_elements_count,
                                      Append(peaks, shift + mountain_elements_count))
         ELSE find_peaks_loop_keeping(mountain_elements_count \div 2, remaining,
                                      shift, peaks)

RECURSIVE find_peaks_loop(_, _, _, _)
find_peaks_loop(mountain_elements_count, remaining, shift, peaks) ==
    IF mountain_elements_count = 0
    THEN IF remaining > 0 THEN <<>> ELSE peaks
    ELSE IF mountain_elements_count <= remaining
         THEN find_peaks_loop(mountain_elements_count \div 2,
                              remaining - mountain_elements_count,
                              shift + mountain_elements_count,
                              Append(peaks, shift + mountain_elements_count))
         ELSE find_peaks_loop(mountain_elements_count \div 2, remaining, shift, peaks)

\* the decomposition that leaves the largest mountain out
find_peaks_below_largest(elements_count) ==
    find_peaks_loop(IF elements_count = 0 THEN 0
                    ELSE Pow2(bit_length(elements_count) - 1) - 1,
                    elements_count, 0, <<>>)

find_peaks(elements_count) ==
    find_peaks_loop(IF elements_count = 0 THEN 0
                    ELSE Pow2(bit_length(elements_count)) - 1,
                    elements_count, 0, <<>>)

map_leaf_index_to_element_index(leaf_index) ==
    2 * leaf_index + 1 - count_ones(leaf_index)

leaf_count_to_peaks_count(leaf_count) == count_ones(leaf_count)

leaf_count_to_mmr_size(leaf_count) ==
    2 * leaf_count - leaf_count_to_peaks_count(leaf_count)

\* at most one merge per appended leaf
no_merges_capped(leaf_count) ==
    IF trailing_ones(leaf_count) > 1 THEN 1 ELSE trailing_ones(leaf_count)

leaf_count_to_append_no_merges(leaf_count) == trailing_ones(leaf_count)

RECURSIVE elements_count_to_leaf_count_loop(_, _, _)
elements_count_to_leaf_count_loop(mountain_leaf_count, current, leaf_count) ==
    IF mountain_leaf_count = 0
    THEN IF current > 0 THEN Err("InvalidElementCount") ELSE Ok(leaf_count)
    ELSE IF 2 * mountain_leaf_count - 1 <= current
         THEN elements_count_to_leaf_count_loop(mountain_leaf_count \div 2,
                  current - (2 * mountain_leaf_count - 1),
                  leaf_count + mountain_leaf_count)
         ELSE elements_count_to_leaf_count_loop(mountain_leaf_count \div 2,
                  current, leaf_count)

elements_count_to_leaf_count(elements_count) ==
    elements_count_to_leaf_count_loop(
        IF elements_count = 0 THEN 1 ELSE Pow2(bit_length(elements_count)),
        elements_count, 0)

\* the leaf count of the elements up to the index itself
element_index_to_leaf_index_inclusive(element_index) ==
    IF element_index = 0 THEN Err("InvalidElementIndex")
    ELSE elements_count_to_leaf_count(element_index)

element_index_to_leaf_index(element_index) ==
    IF element_index = 0 THEN Err("InvalidElementIndex")
    ELSE elements_count_to_leaf_count(element_index - 1)

\* u64::try_from(value).map_err(|_| MmrError::Overflow), of a u128
u64_try_from(value) == IF value > U64_MAX THEN Err("Overflow") ELSE Ok(value)

RECURSIVE find_siblings_loop(_, _, _, _, _)
find_siblings_loop(leaf_index, height, siblings, current_index, elements_count) ==
    IF current_index > elements_count
    THEN Ok(SubSeq(siblings, 1, Len(siblings) - 1))
    ELSE Try(u64_try_from(2 * Pow2(height) - 1), LAMBDA siblings_offset :
         IF leaf_index % 2 = 1
         THEN IF current_index < siblings_offset
              THEN Err("Overflow")
              ELSE Try(checked_add(current_index, 1), LAMBDA next_index :
                   find_siblings_loop(leaf_index \div 2, height + 1,
                       Append(siblings, current_index - siblings_offset),
                       next_index, elements_count))
         ELSE Try(checked_add(current_index, siblings_offset), LAMBDA sibling :
              Try(checked_add(sibling, 1), LAMBDA next_index :
              find_siblings_loop(leaf_index \div 2, height + 1,
                  Append(siblings, sibling), next_index, elements_count))))

find_siblings(element_index, elements_count) ==
    LET leaf == element_index_to_leaf_index(element_index) IN
    IF ~IsOk(leaf) THEN leaf
    ELSE find_siblings_loop(leaf.val, 0, <<>>, element_index, elements_count)

RECURSIVE get_peak_info_loop(_, _, _, _, _)
get_peak_info_loop(elements_count, element_index, mountain_height, mountain_elements_count, mountain_index) ==
    IF mountain_elements_count <= elements_count
       /\ element_index <= mountain_elements_count
    THEN <<mountain_index, IF mountain_height = 0 THEN 0 ELSE mountain_height - 1>>
    ELSE LET fits == mountain_elements_count <= elements_count
             ec == IF fits THEN elements_count - mountain_elements_count
                   ELSE elements_count
             ei == IF fits THEN element_index - mountain_elements_count
                   ELSE element_index
             mi == IF fits THEN mountain_index + 1 ELSE mountain_index
         IN  IF mountain_height = 0 THEN <<mi, 0>>
             ELSE get_peak_info_loop(ec, ei, mountain_height - 1,
                                     mountain_elements_count \div 2, mi)

\* the height of the right mountain, the ordinal of the first one
get_peak_info_first(elements_count, element_index) ==
    <<0, get_peak_info_loop(elements_count, element_index, bit_length(elements_count),
             IF bit_length(elements_count) = 0 THEN 0
             ELSE Pow2(bit_length(elements_count)) - 1, 0)[2]>>

\* every element taken for the peak of a mountain of its own
get_peak_info_flat(elements_count, element_index) == <<0, 0>>

get_peak_info(elements_count, element_index) ==
    get_peak_info_loop(elements_count, element_index, bit_length(elements_count),
        IF bit_length(elements_count) = 0 THEN 0
        ELSE Pow2(bit_length(elements_count)) - 1, 0)

RECURSIVE mmr_size_to_leaf_count_loop(_, _, _)
mmr_size_to_leaf_count_loop(mountain_tips, remaining, leaf_count) ==
    IF mountain_tips = 0 THEN leaf_count
    ELSE IF 2 * mountain_tips - 1 <= remaining
         THEN mmr_size_to_leaf_count_loop(mountain_tips \div 2,
                  remaining - (2 * mountain_tips - 1), leaf_count + mountain_tips)
         ELSE mmr_size_to_leaf_count_loop(mountain_tips \div 2, remaining, leaf_count)

mmr_size_to_leaf_count(mmr_size) ==
    mmr_size_to_leaf_count_loop(Pow2(bit_length(mmr_size + 1) - 1), mmr_size, 0)

----------------------------------------------------------------------------
(* Hash words and the Hasher contract (src/types.rs, src/hasher)           *)

Word(n) == <<"W", n>>
ZERO_HASH == Word(0)

FieldModulus == 1000    \* stands for the Starknet field prime: words from it on are no field elements

hash32_to_field_element(value) ==
    IF value = ZERO_HASH THEN Ok(value)
    ELSE IF value[1] = "W" /\ value[2] >= FieldModulus
         THEN Err("InvalidFieldElement")
         ELSE Ok(value)

keccak_hash_pair(left, right) == Ok(<<"K", left, right>>)

keccak_hash_count_and_bag(elements_count, bag) ==
    keccak_hash_pair(Word(elements_count), bag)

poseidon_hash_pair(left, right) ==
    LET left_fe == hash32_to_field_element(left)
        right_fe == hash32_to_field_element(right)
    IN  IF ~IsOk(left_fe) THEN left_fe
        ELSE IF ~IsOk(right_fe) THEN right_fe
        ELSE Ok(<<"P", left_fe.val, right_fe.val>>)

poseidon_hash_count_and_bag(elements_count, bag) ==
    LET bag_fe == hash32_to_field_element(bag)
    IN  IF ~IsOk(bag_fe) THEN bag_fe
        ELSE Ok(<<"P", Word(elements_count), bag_fe.val>>)

hash_pair(h, left, right) ==
    IF h = "keccak" THEN keccak_hash_pair(left, right)
    ELSE poseidon_hash_pair(left, right)

hash_count_and_bag(h, elements_count, bag) ==
    IF h = "keccak" THEN keccak_hash_count_and_bag(elements_count, bag)
    ELSE poseidon_hash_count_and_bag(elements_count, bag)

----------------------------------------------------------------------------
(* Store keys, values and the in-memory store (src/store)                  *)

StoreKey(mmr_id, kind, index) == <<mmr_id, kind, index>>
metadata(mmr_id, kind) == StoreKey(mmr_id, kind, 0)

leaf_count_key(id) == metadata(id, "LeafCount")
elements_count_key(id) == metadata(id, "ElementsCount")
root_hash_key(id) == metadata(id, "RootHash")
\* a node key that leaves the mmr_id out
node_key_without_id(id, index) == StoreKey(0, "NodeHash", index)
node_key(id, index) == StoreKey(id, "NodeHash", index)

U64(n) == <<"U64", n>>
Hash(h) == <<"Hash", h>>
None == <<"None">>

\* StoreError::TypeMismatch { key, expected, actual }
TypeMismatch(key, expected, actual) ==
    [err |-> "TypeMismatch",
     val |-> [key |-> key, expected |-> expected, actual |-> actual]]

expect_u64(value, key) ==
    IF value[1] = "U64" THEN Ok(value[2]) ELSE TypeMismatch(key, "u64", value)

expect_hash(value, key) ==
    IF value[1] = "Hash" THEN Ok(value[2]) ELSE TypeMismatch(key, "hash32", value)

EmptyStore == [k \in {} |-> None]

store_get(s, key) == IF key \in DOMAIN s THEN s[key] ELSE None

store_set(s, key, value) == (key :> value) @@ s

store_get_many(s, keys) == [i \in 1..Len(keys) |-> store_get(s, keys[i])]

\* a get that takes the entry out of the map
store_after_get_removing(s, key) == [k \in DOMAIN s \ {key} |-> s[k]]

\* the map that InMemoryStore::get leaves: it reads under the read lock
store_after_get(s, key) == s

\* the map that InMemoryStore::get_many leaves
store_after_get_many(s, keys) == s

\* a set_many that leaves the map with the entries of the batch only
store_set_many_clearing(s, entries) ==
    [k \in {entries[i][1] : i \in 1..Len(entries)} |->
        entries[CHOOSE i \in 1..Len(entries) :
                    /\ entries[i][1] = k
                    /\ \A j \in (i + 1)..Len(entries) : entries[j][1] # k][2]]

RECURSIVE store_set_many(_, _)
store_set_many(s, entries) ==
    IF entries = <<>> THEN s
    ELSE store_set_many(store_set(s, Head(entries)[1], Head(entries)[2]),
                        Tail(entries))

\* one call of a Store method with the keys it names
StoreCall(call, keys) == [call |-> call, keys |-> keys]

entry_keys(entries) == [i \in 1..Len(entries) |-> entries[i][1]]

\* the number of calls of a method in a sequence of store calls
CountOf(trace, call) == Cardinality({i \in 1..Len(trace) : trace[i].call = call})

----------------------------------------------------------------------------
(* The engine's reads (src/mmr/core.rs)                                    *)

NoCounts == [some |-> FALSE, leaves_count |-> 0, elements_count |-> 0]
CachedCounts(lc, ec) == [some |-> TRUE, leaves_count |-> lc, elements_count |-> ec]

\* the counter of a value that is no u64 taken for that of no value
extract_counter_lenient(key, value) ==
    IF value = None \/ value[1] # "U64" THEN Ok(0) ELSE Ok(value[2])

extract_counter(key, value) ==
    IF value = None THEN Ok(0) ELSE expect_u64(value, key)

get_leaves_count(s, id) ==
    extract_counter(leaf_count_key(id), store_get(s, leaf_count_key(id)))

\* the count of a tree taken for one never written
get_elements_count_unwritten(s, id) == Ok(0)

get_elements_count(s, id) ==
    extract_counter(elements_count_key(id), store_get(s, elements_count_key(id)))

get_root_hash(s, id) ==
    LET value == store_get(s, root_hash_key(id))
    IN  IF value = None THEN Ok(None)
        ELSE LET h == expect_hash(value, root_hash_key(id))
             IN  IF IsOk(h) THEN Ok(Hash(h.val)) ELSE h

\* a lookup that answers the zero hash for a node that is not stored
get_node_hash_or_zero(s, id, index) ==
    LET value == store_get(s, node_key(id, index))
    IN  IF value = None THEN Ok(Hash(ZERO_HASH))
        ELSE LET h == expect_hash(value, node_key(id, index))
             IN  IF IsOk(h) THEN Ok(Hash(h.val)) ELSE h

get_node_hash(s, id, index) ==
    LET value == store_get(s, node_key(id, index))
    IN  IF value = None THEN Ok(None)
        ELSE LET h == expect_hash(value, node_key(id, index))
             IN  IF IsOk(h) THEN Ok(Hash(h.val)) ELSE h

\* the loop shared by retrieve_peaks_hashes, load_append_state and get_proof:
\* absent values are skipped, a value of the wrong type is an error
RECURSIVE collect_hashes(_, _, _)
collect_hashes(keys, values, hashes) ==
    IF values = <<>> THEN Ok(hashes)
    ELSE IF Head(values) = None THEN collect_hashes(Tail(keys), Tail(values), hashes)
    ELSE LET h == expect_hash(Head(values), Head(keys))
         IN  IF ~IsOk(h) THEN h
             ELSE collect_hashes(Tail(keys), Tail(values), Append(hashes, h.val))

\* the hashes found under the keys in store s
get_hashes(s, keys) == collect_hashes(keys, store_get_many(s, keys), <<>>)

node_keys(id, idxs) == [i \in 1..Len(idxs) |-> node_key(id, idxs[i])]

retrieve_peaks_hashes(s, id, peak_idxs) ==
    get_hashes(s, node_keys(id, peak_idxs))

load_counts(s, id) ==
    LET values == store_get_many(s, <<leaf_count_key(id), elements_count_key(id)>>)
        leaves_count == extract_counter(leaf_count_key(id), values[1])
        elements_count == extract_counter(elements_count_key(id), values[2])
    IN  IF ~IsOk(leaves_count) THEN leaves_count
        ELSE IF ~IsOk(elements_count) THEN elements_count
        ELSE Ok(CachedCounts(leaves_count.val, elements_count.val))

\* load_cached_counts reading the store whether or not it holds cached counts
load_cached_counts_calls_uncached(id, cached_counts) ==
    <<StoreCall("get_many", <<leaf_count_key(id), elements_count_key(id)>>)>>

\* the store calls of load_cached_counts: none when the counts are cached
load_cached_counts_calls(id, cached_counts) ==
    IF cached_counts.some THEN <<>>
    ELSE <<StoreCall("get_many", <<leaf_count_key(id), elements_count_key(id)>>)>>

\* the store call of load_append_state
load_append_state_calls(id, peak_indices) ==
    <<StoreCall("get_many", <<leaf_count_key(id), elements_count_key(id)>>
                                \o node_keys(id, peak_indices))>>

AppendState(lc, ec, peaks) ==
    [leaves_count |-> lc, elements_count |-> ec, peaks_hashes |-> peaks]

load_append_state(s, id, peak_indices) ==
    LET keys == <<leaf_count_key(id), elements_count_key(id)>>
                    \o node_keys(id, peak_indices)
        values == store_get_many(s, keys)
        leaves_count == extract_counter(leaf_count_key(id), values[1])
        elements_count == extract_counter(elements_count_key(id), values[2])
        peaks_hashes == collect_hashes(SubSeq(keys, 3, Len(keys)),
                                       SubSeq(values, 3, Len(values)), <<>>)
    IN  IF ~IsOk(leaves_count) THEN leaves_count
        ELSE IF ~IsOk(elements_count) THEN elements_count
        ELSE IF ~IsOk(peaks_hashes) THEN peaks_hashes
        ELSE Ok(AppendState(leaves_count.val, elements_count.val, peaks_hashes.val))

----------------------------------------------------------------------------
(* Bag, root and the staging of an append (src/mmr/core.rs)                *)

\* a fold that hashes the accumulator on the left of each peak
RECURSIVE bag_fold_acc_left(_, _, _)
bag_fold_acc_left(h, peaks, acc) ==
    IF peaks = <<>> THEN Ok(acc)
    ELSE LET next == hash_pair(h, acc, peaks[Len(peaks)])
         IN  IF ~IsOk(next) THEN next
             ELSE bag_fold_acc_left(h, SubSeq(peaks, 1, Len(peaks) - 1), next.val)

RECURSIVE bag_fold(_, _, _)
bag_fold(h, peaks, acc) ==
    IF peaks = <<>> THEN Ok(acc)
    ELSE LET next == hash_pair(h, peaks[Len(peaks)], acc)
         IN  IF ~IsOk(next) THEN next
             ELSE bag_fold(h, SubSeq(peaks, 1, Len(peaks) - 1), next.val)

\* a bag that takes at least one peak
bag_peaks_hashes_of_some(h, peak_indices, peak_hashes) ==
    IF peak_hashes = <<>> THEN Err("NoHashFoundForIndex")
    ELSE Ok(peak_hashes[Len(peak_hashes)])

bag_peaks_hashes(h, peak_indices, peak_hashes) ==
    IF Len(peak_indices) = 0 THEN Ok(ZERO_HASH)
    ELSE IF Len(peak_indices) = 1
    THEN IF peak_hashes = <<>> THEN Err("NoHashFoundForIndex")
         ELSE Ok(peak_hashes[1])
    ELSE IF Len(peak_hashes) < 2 THEN Err("NoHashFoundForIndex")
    ELSE LET n == Len(peak_hashes)
             acc == hash_pair(h, peak_hashes[n - 1], peak_hashes[n])
         IN  IF ~IsOk(acc) THEN acc
             ELSE bag_fold(h, SubSeq(peak_hashes, 1, n - 2), acc.val)

\* the root taken to be the bag, the element count left out
calculate_root_hash_without_count(h, bag, elements_count) == Ok(bag)

calculate_root_hash(h, bag, elements_count) ==
    hash_count_and_bag(h, elements_count, bag)

bag_the_peaks(s, id, h, tree_size) ==
    LET peaks_idxs == find_peaks(tree_size)
        peaks_hashes == retrieve_peaks_hashes(s, id, peaks_idxs)
    IN  IF ~IsOk(peaks_hashes) THEN peaks_hashes
        ELSE bag_peaks_hashes(h, peaks_idxs, peaks_hashes.val)

\* the merge with the two popped hashes taken in the wrong order
RECURSIVE merge_loop_swapped(_, _, _, _, _, _)
merge_loop_swapped(h, id, no_merges, elements_count, peaks, staged_writes) ==
    IF no_merges = 0
    THEN Ok([elements_count |-> elements_count, peaks |-> peaks,
             staged_writes |-> staged_writes])
    ELSE IF Len(peaks) < 2 THEN Err("NoHashFoundForIndex")
    ELSE LET index == elements_count + 1
             parent_hash == hash_pair(h, peaks[Len(peaks)], peaks[Len(peaks) - 1])
         IN  IF ~IsOk(parent_hash) THEN parent_hash
             ELSE merge_loop_swapped(h, id, no_merges - 1, index,
                      Append(SubSeq(peaks, 1, Len(peaks) - 2), parent_hash.val),
                      Append(staged_writes,
                             <<node_key(id, index), Hash(parent_hash.val)>>))

\* the inner loop of build_append_writes: no_merges parent merges
RECURSIVE merge_loop(_, _, _, _, _, _)
merge_loop(h, id, no_merges, elements_count, peaks, staged_writes) ==
    IF no_merges = 0
    THEN Ok([elements_count |-> elements_count, peaks |-> peaks,
             staged_writes |-> staged_writes])
    ELSE Try(checked_add(elements_count, 1), LAMBDA index :
         IF Len(peaks) < 2 THEN Err("NoHashFoundForIndex")
         ELSE LET right_hash == peaks[Len(peaks)]
                  left_hash == peaks[Len(peaks) - 1]
              IN  Try(hash_pair(h, left_hash, right_hash), LAMBDA parent_hash :
                  merge_loop(h, id, no_merges - 1, index,
                      Append(SubSeq(peaks, 1, Len(peaks) - 2), parent_hash),
                      Append(staged_writes,
                             <<node_key(id, index), Hash(parent_hash)>>))))

\* the outer loop with the merges of every leaf counted from the leaf count
\* the batch ends with
RECURSIVE append_loop_final_count(_, _, _, _, _, _, _, _)
append_loop_final_count(h, id, values, leaves_count, elements_count, peaks, staged_writes, last_element_index) ==
    IF values = <<>>
    THEN Ok([leaves_count |-> leaves_count, elements_count |-> elements_count,
             peaks |-> peaks, staged_writes |-> staged_writes,
             last_element_index |-> last_element_index])
    ELSE LET leaf_element_index == elements_count + 1
             merged == merge_loop(h, id,
                           leaf_count_to_append_no_merges(leaves_count + Len(values) - 1),
                           leaf_element_index, Append(peaks, Head(values)),
                           Append(staged_writes,
                                  <<node_key(id, leaf_element_index),
                                    Hash(Head(values))>>))
         IN  IF ~IsOk(merged) THEN merged
             ELSE append_loop_final_count(h, id, Tail(values), leaves_count + 1,
                      merged.val.elements_count, merged.val.peaks,
                      merged.val.staged_writes, leaf_element_index)

\* the loop taking the index of the last staged node for last_element_index
RECURSIVE append_loop_last_is_count(_, _, _, _, _, _, _, _)
append_loop_last_is_count(h, id, values, leaves_count, elements_count, peaks, staged_writes, last_element_index) ==
    IF values = <<>>
    THEN Ok([leaves_count |-> leaves_count, elements_count |-> elements_count,
             peaks |-> peaks, staged_writes |-> staged_writes,
             last_element_index |-> last_element_index])
    ELSE LET leaf_element_index == elements_count + 1
             merged == merge_loop(h, id, leaf_count_to_append_no_merges(leaves_count),
                           leaf_element_index, Append(peaks, Head(values)),
                           Append(staged_writes,
                                  <<node_key(id, leaf_element_index),
                                    Hash(Head(values))>>))
         IN  IF ~IsOk(merged) THEN merged
             ELSE append_loop_last_is_count(h, id, Tail(values), leaves_count + 1,
                      merged.val.elements_count, merged.val.peaks,
                      merged.val.staged_writes, merged.val.elements_count)

\* the outer loop of build_append_writes: one leaf per value
RECURSIVE append_loop(_, _, _, _, _, _, _, _)
append_loop(h, id, values, leaves_count, elements_count, peaks, staged_writes, last_element_index) ==
    IF values = <<>>
    THEN Ok([leaves_count |-> leaves_count, elements_count |-> elements_count,
             peaks |-> peaks, staged_writes |-> staged_writes,
             last_element_index |-> last_element_index])
    ELSE Try(checked_add(elements_count, 1), LAMBDA leaf_element_index :
         Try(merge_loop(h, id, leaf_count_to_append_no_merges(leaves_count),
                        leaf_element_index, Append(peaks, Head(values)),
                        Append(staged_writes,
                               <<node_key(id, leaf_element_index),
                                 Hash(Head(values))>>)), LAMBDA merged :
         Try(checked_add(leaves_count, 1), LAMBDA next_leaves_count :
         append_loop(h, id, Tail(values), next_leaves_count,
                     merged.elements_count, merged.peaks,
                     merged.staged_writes, leaf_element_index))))

build_append_writes(h, id, values, append_state) ==
    Try(checked_add(append_state.elements_count, 1), LAMBDA first_element_index :
    Try(append_loop(h, id, values, append_state.leaves_count,
                    append_state.elements_count, append_state.peaks_hashes,
                    <<>>, first_element_index), LAMBDA l :
    Try(bag_peaks_hashes(h, find_peaks(l.elements_count), l.peaks), LAMBDA bag :
    Try(calculate_root_hash(h, bag, l.elements_count), LAMBDA root_hash :
    Ok([staged_writes |-> l.staged_writes \o
          << <<elements_count_key(id), U64(l.elements_count)>>,
             <<root_hash_key(id), Hash(root_hash)>>,
             <<leaf_count_key(id), U64(l.leaves_count)>> >>,
        result |->
          [appended_count |-> Len(values),
           first_element_index |-> first_element_index,
           last_element_index |-> l.last_element_index,
           leaves_count |-> l.leaves_count,
           elements_count |-> l.elements_count,
           root_hash |-> root_hash,
           peaks_hashes |-> l.peaks]])))))

----------------------------------------------------------------------------
(* Proofs (src/mmr/core.rs)                                                *)

Some(v) == <<"Some", v>>

Proof(element_index, element_hash, siblings_hashes, peaks_hashes, elements_count) ==
    [element_index |-> element_index, element_hash |-> element_hash,
     siblings_hashes |-> siblings_hashes, peaks_hashes |-> peaks_hashes,
     elements_count |-> elements_count]

\* the persisted count whatever the caller gives
resolve_tree_size_persisted(s, id, elements_count) == get_elements_count(s, id)

\* match elements_count { Some(count) => count, None => get_elements_count()? }
resolve_tree_size(s, id, elements_count) ==
    IF elements_count = None THEN get_elements_count(s, id)
    ELSE Ok(elements_count[2])

get_proof(s, id, element_index, elements_count) ==
    IF element_index = 0 THEN Err("InvalidElementIndex")
    ELSE LET tree_size == resolve_tree_size(s, id, elements_count) IN
    IF ~IsOk(tree_size) THEN tree_size
    ELSE IF element_index > tree_size.val THEN Err("InvalidElementIndex")
    ELSE LET peaks == find_peaks(tree_size.val)
             siblings == find_siblings(element_index, tree_size.val)
         IN
    IF ~IsOk(siblings) THEN siblings
    ELSE LET peaks_hashes == retrieve_peaks_hashes(s, id, peaks) IN
    IF ~IsOk(peaks_hashes) THEN peaks_hashes
    ELSE LET siblings_hashes ==
                 get_hashes(s, node_keys(id, siblings.val))
         IN
    IF ~IsOk(siblings_hashes) THEN siblings_hashes
    ELSE LET element_hash == get_node_hash(s, id, element_index) IN
    IF ~IsOk(element_hash) THEN element_hash
    ELSE IF element_hash.val = None THEN Err("NoHashFoundForIndex")
    ELSE Ok(Proof(element_index, element_hash.val[2], siblings_hashes.val,
                  peaks_hashes.val, tree_size.val))

\* the fold that takes every sibling for a right sibling
RECURSIVE fold_siblings_left(_, _, _, _)
fold_siblings_left(h, siblings_hashes, leaf_index, hash) ==
    IF siblings_hashes = <<>> THEN Ok(hash)
    ELSE LET next == hash_pair(h, hash, Head(siblings_hashes))
         IN  IF ~IsOk(next) THEN next
             ELSE fold_siblings_left(h, Tail(siblings_hashes), leaf_index \div 2,
                                     next.val)

\* the fold of the co-path shared by verify_proof and verify_proof_stateless
RECURSIVE fold_siblings(_, _, _, _)
fold_siblings(h, siblings_hashes, leaf_index, hash) ==
    IF siblings_hashes = <<>> THEN Ok(hash)
    ELSE LET is_right == leaf_index % 2 = 1
             next == IF is_right THEN hash_pair(h, Head(siblings_hashes), hash)
                     ELSE hash_pair(h, hash, Head(siblings_hashes))
         IN  IF ~IsOk(next) THEN next
             ELSE fold_siblings(h, Tail(siblings_hashes), leaf_index \div 2, next.val)

verify_proof(s, id, h, proof, element_value, elements_count) ==
    LET tree_size == resolve_tree_size(s, id, elements_count) IN
    IF ~IsOk(tree_size) THEN tree_size
    ELSE LET leaf_count == mmr_size_to_leaf_count(tree_size.val)
             expected_peaks == leaf_count_to_peaks_count(leaf_count)
         IN
    IF Len(proof.peaks_hashes) # expected_peaks THEN Err("InvalidPeaksCount")
    ELSE IF proof.element_index = 0 \/ proof.element_index > tree_size.val
    THEN Err("InvalidElementIndex")
    ELSE LET info == get_peak_info(tree_size.val, proof.element_index) IN
    IF Len(proof.siblings_hashes) # info[2] THEN Ok(FALSE)
    ELSE LET leaf_index == element_index_to_leaf_index(proof.element_index) IN
    IF ~IsOk(leaf_index) THEN leaf_index
    ELSE LET hash == fold_siblings(h, proof.siblings_hashes, leaf_index.val,
                                   element_value)
         IN
    IF ~IsOk(hash) THEN hash
    ELSE LET peak_hashes == retrieve_peaks_hashes(s, id, find_peaks(tree_size.val)) IN
    IF ~IsOk(peak_hashes) THEN peak_hashes
    ELSE Ok(info[1] + 1 <= Len(peak_hashes.val)
            /\ peak_hashes.val[info[1] + 1] = hash.val)

\* the stateless verification that answers false to a proof of the wrong shape
verify_proof_stateless_lenient(s, id, h, proof, element_value, elements_count) ==
    LET r == verify_proof(s, id, h, proof, element_value, elements_count)
    IN  IF r.err \in {"InvalidPeaksCount", "InvalidElementIndex"} THEN Ok(FALSE)
        ELSE r

\* the stateless verification that compares with the peaks of the store
verify_proof_stateless_from_store(s, id, h, proof, element_value, elements_count) ==
    verify_proof(s, id, h, proof, element_value, elements_count)

verify_proof_stateless(s, id, h, proof, element_value, elements_count) ==
    LET tree_size == resolve_tree_size(s, id, elements_count) IN
    IF ~IsOk(tree_size) THEN tree_size
    ELSE LET leaf_count == mmr_size_to_leaf_count(tree_size.val)
             expected_peaks == leaf_count_to_peaks_count(leaf_count)
         IN
    IF Len(proof.peaks_hashes) # expected_peaks THEN Err("InvalidPeaksCount")
    ELSE IF proof.element_index = 0 \/ proof.element_index > tree_size.val
    THEN Err("InvalidElementIndex")
    ELSE LET info == get_peak_info(tree_size.val, proof.element_index) IN
    IF Len(proof.siblings_hashes) # info[2] THEN Ok(FALSE)
    ELSE LET leaf_index == element_index_to_leaf_index(proof.element_index) IN
    IF ~IsOk(leaf_index) THEN leaf_index
    ELSE LET hash == fold_siblings(h, proof.siblings_hashes, leaf_index.val,
                                   element_value)
         IN
    IF ~IsOk(hash) THEN hash
    ELSE Ok(info[1] + 1 <= Len(proof.peaks_hashes)
            /\ proof.peaks_hashes[info[1] + 1] = hash.val)

get_peaks(s, id, elements_count) ==
    LET tree_size == resolve_tree_size(s, id, elements_count) IN
    IF ~IsOk(tree_size) THEN tree_size
    ELSE retrieve_peaks_hashes(s, id, find_peaks(tree_size.val))

\* bag_the_peaks with the size given or read from the store
bag_the_peaks_of(s, id, h, elements_count) ==
    LET tree_size == resolve_tree_size(s, id, elements_count) IN
    IF ~IsOk(tree_size) THEN tree_size
    ELSE bag_the_peaks(s, id, h, tree_size.val)

----------------------------------------------------------------------------
(* The store calls of the read operations (src/mmr/core.rs)                *)

\* match elements_count { Some(count) => .., None => get_elements_count() }
resolve_tree_size_calls(id, elements_count) ==
    IF elements_count = None THEN <<StoreCall("get", <<elements_count_key(id)>>)>>
    ELSE <<>>

retrieve_peaks_hashes_calls(id, peak_idxs) ==
    <<StoreCall("get_many", node_keys(id, peak_idxs))>>

get_proof_calls(s, id, element_index, elements_count) ==
    IF element_index = 0 THEN <<>>
    ELSE LET tree_size == resolve_tree_size(s, id, elements_count)
             sized == resolve_tree_size_calls(id, elements_count)
         IN
    IF ~IsOk(tree_size) THEN sized
    ELSE IF element_index > tree_size.val THEN sized
    ELSE LET peaks == find_peaks(tree_size.val)
             siblings == find_siblings(element_index, tree_size.val)
         IN
    IF ~IsOk(siblings) THEN sized
    ELSE LET peaked == sized \o retrieve_peaks_hashes_calls(id, peaks)
             sibling_keys == node_keys(id, siblings.val)
             siblinged == Append(peaked, StoreCall("get_many", sibling_keys))
         IN
    IF ~IsOk(retrieve_peaks_hashes(s, id, peaks)) THEN peaked
    ELSE IF ~IsOk(get_hashes(s, sibling_keys)) THEN siblinged
    ELSE Append(siblinged, StoreCall("get", <<node_key(id, element_index)>>))

verify_proof_calls(s, id, h, proof, element_value, elements_count) ==
    LET tree_size == resolve_tree_size(s, id, elements_count)
        sized == resolve_tree_size_calls(id, elements_count)
    IN
    IF ~IsOk(tree_size) THEN sized
    ELSE IF Len(proof.peaks_hashes) #
                leaf_count_to_peaks_count(mmr_size_to_leaf_count(tree_size.val))
    THEN sized
    ELSE IF proof.element_index = 0 \/ proof.element_index > tree_size.val THEN sized
    ELSE IF Len(proof.siblings_hashes) #
                get_peak_info(tree_size.val, proof.element_index)[2]
    THEN sized
    ELSE LET leaf_index == element_index_to_leaf_index(proof.element_index) IN
    IF ~IsOk(leaf_index) THEN sized
    ELSE IF ~IsOk(fold_siblings(h, proof.siblings_hashes, leaf_index.val, element_value))
    THEN sized
    ELSE sized \o retrieve_peaks_hashes_calls(id, find_peaks(tree_size.val))

verify_proof_stateless_calls(s, id, h, proof, element_value, elements_count) ==
    resolve_tree_size_calls(id, elements_count)

get_peaks_calls(s, id, elements_count) ==
    LET tree_size == resolve_tree_size(s, id, elements_count)
        sized == resolve_tree_size_calls(id, elements_count)
    IN  IF ~IsOk(tree_size) THEN sized
        ELSE sized \o retrieve_peaks_hashes_calls(id, find_peaks(tree_size.val))

bag_the_peaks_calls(s, id, elements_count) == get_peaks_calls(s, id, elements_count)

get_root_hash_calls(id) == <<StoreCall("get", <<root_hash_key(id)>>)>>

get_leaves_count_calls(id) == <<StoreCall("get", <<leaf_count_key(id)>>)>>

get_elements_count_calls(id) == <<StoreCall("get", <<elements_count_key(id)>>)>>

\* the store after the get and get_many calls of a read operation
RECURSIVE store_after_calls(_, _)
store_after_calls(s, trace) ==
    IF trace = <<>> THEN s
    ELSE store_after_calls(IF Head(trace).call = "get"
                           THEN store_after_get(s, Head(trace).keys[1])
                           ELSE store_after_get_many(s, Head(trace).keys),
                           Tail(trace))

----------------------------------------------------------------------------
(* Inputs                                                                  *)

Values == {Word(n) : n \in 1..NumValues}

RECURSIVE SeqsUpTo(_, _)
SeqsUpTo(S, n) ==
    IF n = 0 THEN {<<>>}
    ELSE LET shorter == SeqsUpTo(S, n - 1)
         IN  shorter \cup {Append(q, x) : q \in {r \in shorter : Len(r) = n - 1}, x \in S}

Batches == SeqsUpTo(Values, MaxBatch)

----------------------------------------------------------------------------
(* batch_append and append, one action per store call (src/mmr/core.rs).   *)
(* The engine suspends only on store calls, so each action is a store call *)
(* together with the computation that runs up to the next one.             *)

NoResult ==
    [appended_count |-> 0, first_element_index |-> 0, last_element_index |-> 0,
     leaves_count |-> 0, elements_count |-> 0, root_hash |-> ZERO_HASH,
     peaks_hashes |-> <<>>]

NoPend == [op |-> "none", values |-> <<>>, counts |-> NoCounts,
           staged_writes |-> <<>>, result |-> NoResult]

Running == [op |-> "running", args |-> <<>>, out |-> Ok(<<>>)]

\* the call returns `out` to the caller
ReturnFrom(e, op, args, out) ==
    /\ pc' = [pc EXCEPT ![e] = "idle"]
    /\ pend' = [pend EXCEPT ![e] = NoPend]
    /\ res' = [res EXCEPT ![e] = [op |-> op, args |-> args, out |-> out]]

Return(e, op, out) == ReturnFrom(e, op, <<>>, out)

\* append() flattens the BatchAppendResult into an AppendResult
AppendResult(r) ==
    [leaves_count |-> r.leaves_count, elements_count |-> r.elements_count,
     element_index |-> r.first_element_index, root_hash |-> r.root_hash]

\* build_append_writes on the loaded state, then suspend on set_many
Stage(e, op, values, counts, append_state) ==
    LET built == build_append_writes(hasher, mmrId[e], values, append_state)
    IN  IF ~IsOk(built) THEN Return(e, op, built)
        ELSE /\ pc' = [pc EXCEPT ![e] = "write"]
             /\ pend' = [pend EXCEPT ![e] =
                           [op |-> op, values |-> values, counts |-> counts,
                            staged_writes |-> built.val.staged_writes,
                            result |-> built.val.result]]
             /\ res' = [res EXCEPT ![e] = Running]

\* engine e holds cached counts and the persisted counts of its mmr_id are
\* others
Drift(e) ==
    /\ cached[e].some
    /\ LET persisted == load_counts(store, mmrId[e])
       IN  \/ ~IsOk(persisted)
           \/ persisted.val.leaves_count # cached[e].leaves_count
           \/ persisted.val.elements_count # cached[e].elements_count

\* a batch taken for one of some values
is_empty_never(values) == FALSE

\* values.is_empty()
is_empty(values) == values = <<>>

\* batch_append up to its first read of peaks: the empty-batch check,
\* load_cached_counts and the elements_count == 0 shortcut of
\* prepare_append_state
AppendCall(e, op, values) ==
    /\ pc[e] = "idle"
    /\ Len(hist[e]) + Len(values) <= limit
    /\ UNCHANGED <<store, hist, lastCall, mmrId, hasher, limit, failed, tx, base>>
    /\ calls' = [calls EXCEPT ![e] =
                   IF is_empty(values) THEN <<>>
                   ELSE load_cached_counts_calls(mmrId[e], cached[e])]
    /\ drifted' = [drifted EXCEPT ![e] =
                      IF is_empty(values) \/ ~Drift(e) THEN "no"
                      ELSE IF cached[e].elements_count = 0 THEN "zero"
                      ELSE "nonzero"]
    /\ IF is_empty(values)
       THEN /\ Return(e, op, Err("EmptyBatchAppend"))
            /\ UNCHANGED cached
       ELSE LET counts == IF cached[e].some THEN Ok(cached[e])
                          ELSE load_counts(store, mmrId[e])
            IN  IF ~IsOk(counts)
                THEN /\ Return(e, op, counts)
                     /\ UNCHANGED cached
                ELSE /\ cached' = [cached EXCEPT ![e] = counts.val]
                     /\ IF counts.val.elements_count = 0
                        THEN Stage(e, op, values, counts.val,
                                   AppendState(counts.val.leaves_count,
                                               counts.val.elements_count, <<>>))
                        ELSE /\ pc' = [pc EXCEPT ![e] = "read"]
                             /\ pend' = [pend EXCEPT ![e] =
                                           [NoPend EXCEPT !.op = op,
                                                          !.values = values,
                                                          !.counts = counts.val]]
                             /\ res' = [res EXCEPT ![e] = Running]

batch_append(e, values) == AppendCall(e, "batch_append", values)

append(e, value) == AppendCall(e, "append", <<value>>)

\* prepare_append_state from load_append_state on: the get_many of counts
\* and peaks, the drift check, then build_append_writes
AppendRead(e) ==
    /\ pc[e] = "read"
    /\ UNCHANGED <<store, cached, hist, lastCall, mmrId, hasher, limit, failed, drifted, tx, base>>
    /\ calls' = [calls EXCEPT ![e] =
                   @ \o load_append_state_calls(mmrId[e],
                            find_peaks(pend[e].counts.elements_count))]
    /\ LET counts == pend[e].counts
           append_state == load_append_state(store, mmrId[e],
                               find_peaks(counts.elements_count))
       IN  IF ~IsOk(append_state) THEN Return(e, pend[e].op, append_state)
           ELSE IF append_state.val.leaves_count # counts.leaves_count
                   \/ append_state.val.elements_count # counts.elements_count
           THEN Return(e, pend[e].op, Err("Internal"))
           ELSE Stage(e, pend[e].op, pend[e].values, counts, append_state.val)

\* no failed set_many that the next successful call could be the retry of
NoFailed == [start |-> 0, values |-> <<>>]

\* self.store.set_many(staged_writes) succeeds: the batch is in the store,
\* the counts cache is refreshed and the result returned
AppendWrite(e) ==
    /\ pc[e] = "write"
    /\ store' = store_set_many(store, pend[e].staged_writes)
    /\ cached' = [cached EXCEPT ![e] =
                    CachedCounts(pend[e].result.leaves_count,
                                 pend[e].result.elements_count)]
    /\ Return(e, pend[e].op,
              Ok(IF pend[e].op = "append" THEN AppendResult(pend[e].result)
                 ELSE pend[e].result))
    /\ hist' = [hist EXCEPT ![e] = hist[e] \o pend[e].values]
    /\ lastCall' = [lastCall EXCEPT ![e] =
                      [start |-> Len(hist[e]), values |-> pend[e].values,
                       result |-> pend[e].result]]
    /\ failed' = [failed EXCEPT ![e] =
                    IF @.values = pend[e].values /\ @.start = Len(hist[e])
                    THEN @ ELSE NoFailed]
    /\ calls' = [calls EXCEPT ![e] =
                   Append(@, StoreCall("set_many", entry_keys(pend[e].staged_writes)))]
    /\ UNCHANGED <<mmrId, hasher, limit, drifted, tx, base>>

\* a set_many that fails after it has inserted its first entry
set_many_fails_partial(s, entries) ==
    store_set(s, entries[1][1], entries[1][2])

\* InMemoryStore::set_many returning Err: the lock is poisoned, the error is
\* returned before the loop that inserts the entries
\* a set_many that reports a failure after it has written the batch
set_many_fails_written(s, entries) == store_set_many(s, entries)

set_many_fails(s, entries) == s

\* self.store.set_many(staged_writes) fails and `?` returns the error
AppendWriteFails(e) ==
    /\ pc[e] = "write"
    /\ store' = set_many_fails(store, pend[e].staged_writes)
    /\ Return(e, pend[e].op, Err("Internal"))
    /\ failed' = [failed EXCEPT ![e] =
                    [start |-> Len(hist[e]), values |-> pend[e].values]]
    /\ calls' = [calls EXCEPT ![e] =
                   Append(@, StoreCall("set_many", entry_keys(pend[e].staged_writes)))]
    /\ UNCHANGED <<cached, hist, lastCall, mmrId, hasher, limit, drifted, tx, base>>

\* a cancelled call that still hands its staged writes to the store
store_after_cancel_flushing(s, staged_writes) == store_set_many(s, staged_writes)

\* the store after the future of a call is dropped: the staged writes are a
\* local of the call and go with it
store_after_cancel(s, staged_writes) == s

\* the caller drops the future of append or batch_append before its set_many
\* has run: at the get_many of load_append_state, or with the batch staged
Cancel(e) ==
    /\ pc[e] \in {"read", "write"}
    /\ store' = store_after_cancel(store, pend[e].staged_writes)
    /\ pc' = [pc EXCEPT ![e] = "idle"]
    /\ pend' = [pend EXCEPT ![e] = NoPend]
    /\ res' = [res EXCEPT ![e] = [op |-> "cancelled", args |-> [at |-> pc[e]],
                                  out |-> Ok(<<>>)]]
    /\ UNCHANGED <<cached, hist, lastCall, mmrId, hasher, limit, failed, drifted,
                   calls, tx, base>>

\* Mmr::new on the same store and mmr_id: a fresh engine, no cached counts
New(e) ==
    /\ pc[e] = "idle"
    /\ cached' = [cached EXCEPT ![e] = NoCounts]
    /\ res' = [res EXCEPT ![e] = [op |-> "new", args |-> <<>>, out |-> Ok(<<>>)]]
    /\ calls' = [calls EXCEPT ![e] = <<>>]
    /\ UNCHANGED <<store, pc, pend, hist, lastCall, mmrId, hasher, limit, failed, drifted, tx, base>>

----------------------------------------------------------------------------
(* create_from_peaks (src/mmr/core.rs).  It writes with one store.set per  *)
(* key; fail_at is the number of the set that fails (0: none fails).       *)

\* the peaks a caller hands over: a field element, and a word that is none
PeakHashes == {Word(1), Word(FieldModulus)}

\* the sets with the number of peaks taken for the leaf count
create_from_peaks_sets_peaks_count(id, peaks_hashes, elements_count) ==
    LET expected_peak_indices == find_peaks(elements_count)
    IN  << <<leaf_count_key(id), U64(Len(peaks_hashes))>>,
           <<elements_count_key(id), U64(elements_count)>> >>
        \o [j \in 1..Len(peaks_hashes) |->
               <<node_key(id, expected_peak_indices[j]), Hash(peaks_hashes[j])>>]

\* the sets of create_from_peaks before it bags the peaks, in order
create_from_peaks_sets(id, peaks_hashes, elements_count) ==
    LET expected_peak_indices == find_peaks(elements_count)
    IN  << <<leaf_count_key(id), U64(mmr_size_to_leaf_count(elements_count))>>,
           <<elements_count_key(id), U64(elements_count)>> >>
        \o [j \in 1..Len(peaks_hashes) |->
               <<node_key(id, expected_peak_indices[j]), Hash(peaks_hashes[j])>>]

\* InMemoryStore::set returning Err: the lock is poisoned, nothing is inserted
set_fails(s, k, v) == s

\* the store after the first n of the entries have been set one by one
RECURSIVE set_each(_, _, _)
set_each(s, entries, n) ==
    IF n = 0 THEN s
    ELSE store_set(set_each(s, entries, n - 1), entries[n][1], entries[n][2])

\* Mmr::create_from_peaks, with `args` what the result records of the call
create_from_peaks_call(e, peaks_hashes, elements_count, fail_at, args) ==
    /\ pc[e] = "idle"
    /\ UNCHANGED <<pc, pend, hist, lastCall, mmrId, hasher, limit, failed, drifted, tx>>
    /\ LET id == mmrId[e]
           current_elements_count == get_elements_count(store, id)
           sets == create_from_peaks_sets(id, peaks_hashes, elements_count)
           read_count == <<StoreCall("get", <<elements_count_key(id)>>)>>
           set_calls(n) == [j \in 1..n |-> StoreCall("set", <<sets[j][1]>>)]
           bag_call == <<StoreCall("get_many",
                                   node_keys(id, find_peaks(elements_count)))>>
           root_set == <<StoreCall("set", <<root_hash_key(id)>>)>>
           returns(out, trace) ==
               /\ res' = [res EXCEPT ![e] = [op |-> "create_from_peaks",
                                             args |-> args, out |-> out]]
               /\ calls' = [calls EXCEPT ![e] = trace]
       IN  IF ~IsOk(current_elements_count)
           THEN returns(current_elements_count, read_count) /\ UNCHANGED <<store, cached>>
           ELSE IF current_elements_count.val # 0
           THEN returns(Err("NonEmptyMmr"), read_count) /\ UNCHANGED <<store, cached>>
           ELSE IF Len(find_peaks(elements_count)) # Len(peaks_hashes)
           THEN /\ returns(Err("InvalidPeaksCountForElements"), read_count)
                /\ UNCHANGED <<store, cached>>
           ELSE IF fail_at \in 1..Len(sets)
           THEN /\ store' = set_fails(set_each(store, sets, fail_at - 1),
                                      sets[fail_at][1], sets[fail_at][2])
                /\ returns(Err("Internal"), read_count \o set_calls(fail_at))
                /\ UNCHANGED cached
           ELSE LET written == set_each(store, sets, Len(sets))
                    bag == bag_the_peaks(written, id, hasher, elements_count)
                    root_hash == calculate_root_hash(hasher, bag.val, elements_count)
                    bagged == read_count \o set_calls(Len(sets)) \o bag_call
                IN  IF ~IsOk(bag)
                    THEN store' = written /\ returns(bag, bagged) /\ UNCHANGED cached
                    ELSE IF ~IsOk(root_hash)
                    THEN store' = written /\ returns(root_hash, bagged) /\ UNCHANGED cached
                    ELSE IF fail_at = Len(sets) + 1
                    THEN /\ store' = set_fails(written, root_hash_key(id),
                                               Hash(root_hash.val))
                         /\ returns(Err("Internal"), bagged \o root_set)
                         /\ UNCHANGED cached
                    ELSE /\ store' = store_set(written, root_hash_key(id),
                                               Hash(root_hash.val))
                         /\ cached' = [cached EXCEPT ![e] =
                                         CachedCounts(mmr_size_to_leaf_count(elements_count),
                                                      elements_count)]
                         /\ returns(Ok(<<>>), bagged \o root_set)

create_from_peaks(e, peaks_hashes, elements_count, fail_at) ==
    create_from_peaks_call(e, peaks_hashes, elements_count, fail_at, [before |-> store])

\* create_from_peaks with the peaks and the count a caller has made up
CreateFromPeaks(e, peaks_hashes, elements_count, fail_at) ==
    /\ create_from_peaks(e, peaks_hashes, elements_count, fail_at)
    /\ UNCHANGED base

----------------------------------------------------------------------------
(* The read operations as actions (src/mmr/core.rs).  They take &self, so  *)
(* they run between the appends of their engine.                           *)

\* the sizes a tree of these leaves has or had
SizesOf(leaves) == {leaf_count_to_mmr_size(n) : n \in 1..leaves}

\* a read operation of engine e returns out after the store calls of trace
Reads(e, op, args, out, trace) ==
    /\ pc[e] = "idle"
    /\ ReturnFrom(e, op, args, out)
    /\ calls' = [calls EXCEPT ![e] = trace]
    /\ store' = store_after_calls(store, trace)
    /\ UNCHANGED <<cached, hist, lastCall, mmrId, hasher, limit, failed, drifted, tx, base>>

GetProof(e, element_index, elements_count) ==
    Reads(e, "get_proof", [with_size |-> elements_count # None],
          get_proof(store, mmrId[e], element_index, elements_count),
          get_proof_calls(store, mmrId[e], element_index, elements_count))

\* what a caller may do to a proof and a value before it verifies them
Attacks == {"none", "value", "sibling", "extra_sibling", "peak", "own_peak"}

\* the ways a caller may give a proof the wrong shape, or a value that is no
\* field element
Malformations ==
    {"none", "peak_removed", "peak_added", "index_zero", "index_beyond",
     "index_zero_peak_added", "sibling_removed", "extra_sibling",
     "sibling_and_peak_added", "no_field_value", "extra_sibling_no_field_value"}

Other(h) == <<"K", h, h>>

Tamper(proof, attack) ==
    IF attack = "sibling" /\ proof.siblings_hashes # <<>>
    THEN [proof EXCEPT !.siblings_hashes[1] = Other(@)]
    ELSE IF attack \in {"extra_sibling", "extra_sibling_no_field_value"}
    THEN [proof EXCEPT !.siblings_hashes = Append(@, ZERO_HASH)]
    ELSE IF attack = "sibling_removed" /\ proof.siblings_hashes # <<>>
    THEN [proof EXCEPT !.siblings_hashes = SubSeq(@, 1, Len(@) - 1)]
    ELSE IF attack = "sibling_and_peak_added"
    THEN [proof EXCEPT !.siblings_hashes = Append(@, ZERO_HASH),
                       !.peaks_hashes = Append(@, ZERO_HASH)]
    ELSE IF attack = "peak_removed" /\ proof.peaks_hashes # <<>>
    THEN [proof EXCEPT !.peaks_hashes = SubSeq(@, 1, Len(@) - 1)]
    ELSE IF attack = "peak_added"
    THEN [proof EXCEPT !.peaks_hashes = Append(@, ZERO_HASH)]
    ELSE IF attack = "index_zero"
    THEN [proof EXCEPT !.element_index = 0]
    ELSE IF attack = "index_beyond"
    THEN [proof EXCEPT !.element_index = proof.elements_count + 1]
    ELSE IF attack = "index_zero_peak_added"
    THEN [proof EXCEPT !.element_index = 0, !.peaks_hashes = Append(@, ZERO_HASH)]
    ELSE IF attack = "peak" /\ proof.peaks_hashes # <<>>
    THEN [proof EXCEPT !.peaks_hashes[1] = Other(@)]
    ELSE IF attack = "own_peak" /\ proof.peaks_hashes # <<>>
    THEN [proof EXCEPT !.peaks_hashes[get_peak_info(proof.elements_count,
                                                    proof.element_index)[1] + 1] =
                           Other(@)]
    ELSE proof

\* the arguments of a verification of the proof the last get_proof returned
\* and the hash stored at its index, after the attack
VerifyArgs(e, attack) ==
    LET proof == Tamper(res[e].out.val, attack)
    IN  [proof |-> proof, attack |-> attack,
         element_value |-> IF attack = "value" THEN Other(proof.element_hash)
                           ELSE IF attack \in {"no_field_value",
                                               "extra_sibling_no_field_value"}
                           THEN Word(FieldModulus)
                           ELSE proof.element_hash,
         elements_count |-> IF res[e].args.with_size
                            THEN Some(proof.elements_count) ELSE None]

VerifyProof(e, attack) ==
    /\ res[e].op = "get_proof"
    /\ IsOk(res[e].out)
    /\ LET args == VerifyArgs(e, attack)
       IN  Reads(e, "verify_proof", args,
                 verify_proof(store, mmrId[e], hasher, args.proof,
                              args.element_value, args.elements_count),
                 verify_proof_calls(store, mmrId[e], hasher, args.proof,
                                    args.element_value, args.elements_count))

VerifyProofStateless(e, attack) ==
    /\ res[e].op = "get_proof"
    /\ IsOk(res[e].out)
    /\ LET args == VerifyArgs(e, attack)
       IN  Reads(e, "verify_proof_stateless", args,
                 verify_proof_stateless(store, mmrId[e], hasher, args.proof,
                                        args.element_value, args.elements_count),
                 verify_proof_stateless_calls(store, mmrId[e], hasher, args.proof,
                                              args.element_value, args.elements_count))

GetPeaks(e, elements_count) ==
    Reads(e, "get_peaks", [elements_count |-> elements_count],
          get_peaks(store, mmrId[e], elements_count),
          get_peaks_calls(store, mmrId[e], elements_count))

BagThePeaks(e, elements_count) ==
    Reads(e, "bag_the_peaks", [elements_count |-> elements_count],
          bag_the_peaks_of(store, mmrId[e], hasher, elements_count),
          bag_the_peaks_calls(store, mmrId[e], elements_count))

GetRootHash(e) ==
    Reads(e, "get_root_hash", <<>>, get_root_hash(store, mmrId[e]),
          get_root_hash_calls(mmrId[e]))

GetLeavesCount(e) ==
    Reads(e, "get_leaves_count", <<>>, get_leaves_count(store, mmrId[e]),
          get_leaves_count_calls(mmrId[e]))

GetElementsCount(e) ==
    Reads(e, "get_elements_count", <<>>, get_elements_count(store, mmrId[e]),
          get_elements_count_calls(mmrId[e]))

----------------------------------------------------------------------------
(* The appends in a transaction of the host (src/mmr/core.rs,              *)
(* src/store/postgres.rs).  The transaction holds its writes until the     *)
(* host commits it or rolls it back; the engine and the transaction are    *)
(* borrowed exclusively for the whole call, which is one step.             *)

\* no transaction was begun
NoTx == [open |-> FALSE, outcome |-> "none", writes |-> EmptyStore,
         start |-> EmptyStore, batches |-> <<>>]

\* a read through the transaction that passes by its uncommitted writes
tx_view_committed(t, s) == s

\* what a query executed on the transaction sees: the writes of the
\* transaction over the committed entries
tx_view(t, s) == t.writes @@ s

get_many_in_tx(t, s, keys) == store_get_many(tx_view(t, s), keys)

set_many_in_tx(t, entries) == [t EXCEPT !.writes = store_set_many(@, entries)]

load_append_state_in_tx(t, s, id, peak_indices) ==
    load_append_state(tx_view(t, s), id, peak_indices)

prepare_append_state_in_tx(t, s, id) ==
    LET values == get_many_in_tx(t, s, <<leaf_count_key(id), elements_count_key(id)>>)
        leaves_count == extract_counter(leaf_count_key(id), values[1])
        elements_count == extract_counter(elements_count_key(id), values[2])
    IN  IF ~IsOk(leaves_count) THEN leaves_count
        ELSE IF ~IsOk(elements_count) THEN elements_count
        ELSE IF elements_count.val = 0
        THEN Ok(AppendState(leaves_count.val, elements_count.val, <<>>))
        ELSE load_append_state_in_tx(t, s, id, find_peaks(elements_count.val))

\* the store calls of prepare_append_state_in_tx
prepare_append_state_in_tx_calls(t, s, id) ==
    LET counts == <<leaf_count_key(id), elements_count_key(id)>>
        elements_count == extract_counter(counts[2], get_many_in_tx(t, s, counts)[2])
    IN  <<StoreCall("get_many_in_tx", counts)>>
        \o IF IsOk(extract_counter(counts[1], get_many_in_tx(t, s, counts)[1]))
              /\ IsOk(elements_count) /\ elements_count.val # 0
           THEN <<StoreCall("get_many_in_tx",
                            counts \o node_keys(id, find_peaks(elements_count.val)))>>
           ELSE <<>>

\* the counts cache keeping the counts of the result, as batch_append does
cached_counts_after_in_tx_kept(result) ==
    CachedCounts(result.leaves_count, result.elements_count)

\* self.cached_counts = None after set_many_in_tx
cached_counts_after_in_tx(result) == NoCounts

\* the leaves that engine e has appended in the batches
RECURSIVE LeavesIn(_, _)
LeavesIn(batches, e) ==
    IF batches = <<>> THEN 0
    ELSE (IF Head(batches).e = e THEN Len(Head(batches).values) ELSE 0)
         + LeavesIn(Tail(batches), e)

\* the values that engine e has appended in the batches, in order
RECURSIVE ValuesIn(_, _)
ValuesIn(batches, e) ==
    IF batches = <<>> THEN <<>>
    ELSE (IF Head(batches).e = e THEN Head(batches).values ELSE <<>>)
         \o ValuesIn(Tail(batches), e)

\* store.begin_write_tx()
BeginTx ==
    /\ ~tx.open
    /\ \A e \in DOMAIN pc : pc[e] = "idle"
    /\ tx' = [NoTx EXCEPT !.open = TRUE, !.start = store]
    /\ UNCHANGED <<store, cached, pc, pend, res, hist, lastCall, mmrId, hasher, limit,
                   failed, drifted, calls, base>>

InTxOps == {"append_in_tx", "batch_append_in_tx"}

\* batch_append_in_tx, and append_in_tx that calls it with one value
AppendInTxCall(e, op, values) ==
    /\ pc[e] = "idle"
    /\ tx.open
    /\ Len(hist[e]) + LeavesIn(tx.batches, e) + Len(values) <= limit
    /\ UNCHANGED <<store, hist, lastCall, mmrId, hasher, limit, failed, drifted, base>>
    /\ IF is_empty(values)
       THEN /\ Return(e, op, Err("EmptyBatchAppend"))
            /\ calls' = [calls EXCEPT ![e] = <<>>]
            /\ UNCHANGED <<cached, tx>>
       ELSE LET append_state == prepare_append_state_in_tx(tx, store, mmrId[e])
                read == prepare_append_state_in_tx_calls(tx, store, mmrId[e])
            IN  IF ~IsOk(append_state)
                THEN /\ Return(e, op, append_state)
                     /\ cached' = [cached EXCEPT ![e] = NoCounts]
                     /\ calls' = [calls EXCEPT ![e] = read]
                     /\ UNCHANGED tx
                ELSE LET built == build_append_writes(hasher, mmrId[e], values,
                                                      append_state.val)
                     IN  IF ~IsOk(built)
                         THEN /\ Return(e, op, built)
                              /\ cached' = [cached EXCEPT ![e] = NoCounts]
                              /\ calls' = [calls EXCEPT ![e] = read]
                              /\ UNCHANGED tx
                         ELSE /\ tx' = [set_many_in_tx(tx, built.val.staged_writes)
                                          EXCEPT !.batches =
                                              Append(@, [e |-> e, values |-> values,
                                                         result |-> built.val.result])]
                              /\ cached' = [cached EXCEPT ![e] =
                                               cached_counts_after_in_tx(built.val.result)]
                              /\ calls' = [calls EXCEPT ![e] =
                                   Append(read, StoreCall("set_many_in_tx",
                                              entry_keys(built.val.staged_writes)))]
                              /\ Return(e, op,
                                        Ok(IF op = "append_in_tx"
                                           THEN AppendResult(built.val.result)
                                           ELSE built.val.result))

batch_append_in_tx(e, values) == AppendInTxCall(e, "batch_append_in_tx", values)

append_in_tx(e, value) == AppendInTxCall(e, "append_in_tx", <<value>>)

\* tx.commit(): the writes of the transaction are in the store
Commit ==
    /\ tx.open
    /\ store' = tx.writes @@ store
    /\ hist' = [e \in DOMAIN hist |-> hist[e] \o ValuesIn(tx.batches, e)]
    /\ tx' = [tx EXCEPT !.open = FALSE, !.outcome = "committed"]
    /\ UNCHANGED <<cached, pc, pend, res, lastCall, mmrId, hasher, limit, failed,
                   drifted, calls, base>>

\* tx.rollback(): the writes of the transaction are dropped
Rollback ==
    /\ tx.open
    /\ tx' = [tx EXCEPT !.open = FALSE, !.outcome = "rolled_back"]
    /\ UNCHANGED <<store, cached, pc, pend, res, hist, lastCall, mmrId, hasher, limit,
                   failed, drifted, calls, base>>

----------------------------------------------------------------------------
(* The store called directly (src/store/mod.rs, src/store/memory.rs):      *)
(* set_many of InMemoryStore, which inserts under one write lock, the      *)
(* set_many that the Store trait provides, which awaits one set per entry, *)
(* and get_many.  res[p].args keeps the batch and the store of before it.  *)

\* the batches written: the staged writes of the first append of a tree
StoreBatches ==
    {build_append_writes("keccak", 1, <<value>>, AppendState(0, 0, <<>>)).val.staged_writes :
         value \in Values}

SetManyArgs(entries) == [entries |-> entries, before |-> store]

StoreCalls(p, op, args, out) ==
    /\ res' = [res EXCEPT ![p] = [op |-> op, args |-> args, out |-> out]]
    /\ UNCHANGED <<cached, hist, lastCall, mmrId, hasher, limit, failed, drifted,
                   calls, tx, base>>

\* InMemoryStore::set_many: every entry inserted while the write lock is held
SetMany(p, entries) ==
    /\ pc[p] = "idle"
    /\ store' = store_set_many(store, entries)
    /\ StoreCalls(p, "set_many", SetManyArgs(entries), Ok(<<>>))
    /\ UNCHANGED <<pc, pend>>

\* InMemoryStore::set_many on a poisoned lock
SetManyFails(p, entries) ==
    /\ pc[p] = "idle"
    /\ store' = set_many_fails(store, entries)
    /\ StoreCalls(p, "set_many", SetManyArgs(entries), Err("Internal"))
    /\ UNCHANGED <<pc, pend>>

\* Store::set_many as the trait provides it, up to its first set
DefaultSetManyCall(p, entries) ==
    /\ pc[p] = "idle"
    /\ pc' = [pc EXCEPT ![p] = "set_many"]
    /\ pend' = [pend EXCEPT ![p] = [NoPend EXCEPT !.op = "set_many",
                                                  !.staged_writes = entries]]
    /\ StoreCalls(p, "running", SetManyArgs(entries), Ok(<<>>))
    /\ UNCHANGED store

\* self.set(key, value).await? succeeds; after the last entry, Ok(())
DefaultSetManySet(p) ==
    /\ pc[p] = "set_many"
    /\ LET entries == pend[p].staged_writes
       IN  /\ store' = store_set(store, Head(entries)[1], Head(entries)[2])
           /\ IF Tail(entries) = <<>>
              THEN /\ pc' = [pc EXCEPT ![p] = "idle"]
                   /\ pend' = [pend EXCEPT ![p] = NoPend]
                   /\ StoreCalls(p, "set_many", res[p].args, Ok(<<>>))
              ELSE /\ pend' = [pend EXCEPT ![p].staged_writes = Tail(entries)]
                   /\ StoreCalls(p, "running", res[p].args, Ok(<<>>))
                   /\ UNCHANGED pc

\* self.set(key, value).await? fails and the error is returned
DefaultSetManySetFails(p) ==
    /\ pc[p] = "set_many"
    /\ pc' = [pc EXCEPT ![p] = "idle"]
    /\ pend' = [pend EXCEPT ![p] = NoPend]
    /\ StoreCalls(p, "set_many", res[p].args, Err("Internal"))
    /\ UNCHANGED store

\* get_many of the keys of the batch that w writes or wrote last
GetMany(p, w) ==
    /\ pc[p] = "idle"
    /\ pc[w] = "set_many" \/ res[w].op = "set_many"
    /\ LET keys == entry_keys(res[w].args.entries)
       IN  StoreCalls(p, "get_many",
                      [keys |-> keys, entries |-> res[w].args.entries,
                       before |-> res[w].args.before],
                      Ok(store_get_many(store, keys)))
    /\ UNCHANGED <<store, pc, pend>>

----------------------------------------------------------------------------
(* One engine on its own store, Keccak: appends, failing writes, reopening *)

NoCall == [start |-> 0, values |-> <<>>, result |-> NoResult]

\* a tree that was not created from peaks
NoBase == [some |-> FALSE, leaves |-> 0]

InitWith(ids, h, max) ==
    /\ store = EmptyStore
    /\ mmrId = ids
    /\ hasher = h
    /\ limit = max
    /\ cached = [e \in DOMAIN ids |-> NoCounts]
    /\ pc = [e \in DOMAIN ids |-> "idle"]
    /\ pend = [e \in DOMAIN ids |-> NoPend]
    /\ res = [e \in DOMAIN ids |-> [op |-> "new", args |-> <<>>, out |-> Ok(<<>>)]]
    /\ hist = [e \in DOMAIN ids |-> <<>>]
    /\ lastCall = [e \in DOMAIN ids |-> NoCall]
    /\ failed = [e \in DOMAIN ids |-> NoFailed]
    /\ drifted = [e \in DOMAIN ids |-> "no"]
    /\ calls = [e \in DOMAIN ids |-> <<>>]
    /\ tx = NoTx
    /\ base = [e \in DOMAIN ids |-> NoBase]

Init == InitWith(1 :> 1, "keccak", MaxLeaves)

Next ==
    \/ \E e \in DOMAIN pc, value \in Values : append(e, value)
    \/ \E e \in DOMAIN pc, values \in Batches : batch_append(e, values)
    \/ \E e \in DOMAIN pc : AppendRead(e)
    \/ \E e \in DOMAIN pc : AppendWrite(e)
    \/ \E e \in DOMAIN pc : AppendWriteFails(e)
    \/ \E e \in DOMAIN pc : New(e)

Spec == Init /\ [][Next]_vars

----------------------------------------------------------------------------
(* One engine on its own store, Keccak: appends, proofs and verification   *)

NextProofs ==
    \/ \E e \in DOMAIN pc, value \in Values : append(e, value)
    \/ \E e \in DOMAIN pc, values \in Batches : batch_append(e, values)
    \/ \E e \in DOMAIN pc : AppendRead(e)
    \/ \E e \in DOMAIN pc : AppendWrite(e)
    \/ \E e \in DOMAIN pc :
           \E element_index \in 0..(leaf_count_to_mmr_size(Len(hist[e])) + 1),
              elements_count \in {None} \cup {Some(n) : n \in SizesOf(Len(hist[e]))} :
               GetProof(e, element_index, elements_count)
    \/ \E e \in DOMAIN pc, attack \in Attacks : VerifyProof(e, attack)

InitProofs == InitWith(1 :> 1, "keccak", MaxLeaves - 1)

SpecProofs == InitProofs /\ [][NextProofs]_vars

----------------------------------------------------------------------------
(* One engine on its own store, Keccak: appends and every read operation   *)

\* the size arguments of a read of the tree of e: none, and the sizes it had
SizeOptions(e) == {None} \cup {Some(n) : n \in SizesOf(Len(hist[e]))}

\* the leaves of the trees that are read: two values tell the leaves apart
ReadValues == {Word(1), Word(2)}

NextReads ==
    \/ \E e \in DOMAIN pc, value \in ReadValues : append(e, value)
    \/ \E e \in DOMAIN pc, values \in SeqsUpTo(ReadValues, MaxBatch) :
           batch_append(e, values)
    \/ \E e \in DOMAIN pc : AppendRead(e)
    \/ \E e \in DOMAIN pc : AppendWrite(e)
    \/ \E e \in DOMAIN pc :
           \E element_index \in 0..(leaf_count_to_mmr_size(Len(hist[e])) + 1),
              elements_count \in SizeOptions(e) :
               GetProof(e, element_index, elements_count)
    \/ \E e \in DOMAIN pc, attack \in Attacks : VerifyProof(e, attack)
    \/ \E e \in DOMAIN pc, attack \in Attacks : VerifyProofStateless(e, attack)
    \/ \E e \in DOMAIN pc :
           \E elements_count \in SizeOptions(e) : GetPeaks(e, elements_count)
    \/ \E e \in DOMAIN pc :
           \E elements_count \in SizeOptions(e) : BagThePeaks(e, elements_count)
    \/ \E e \in DOMAIN pc : GetRootHash(e)
    \/ \E e \in DOMAIN pc : GetLeavesCount(e)
    \/ \E e \in DOMAIN pc : GetElementsCount(e)

InitReads == InitWith(1 :> 1, "keccak", MaxLeaves - 1)

SpecReads == InitReads /\ [][NextReads]_vars

----------------------------------------------------------------------------
(* Two engines with different mmr_ids on one store, Keccak                 *)

\* engine e appends its own value only, so that a leaf tells its writer
NextIso ==
    \/ \E e \in DOMAIN pc : append(e, Word(e))
    \/ \E e \in DOMAIN pc :
           \E values \in SeqsUpTo({Word(e)}, MaxBatch) : batch_append(e, values)
    \/ \E e \in DOMAIN pc : AppendRead(e)
    \/ \E e \in DOMAIN pc : AppendWrite(e)

InitIso == InitWith(<<1, 2>>, "keccak", MaxLeaves - 1)

SpecIso == InitIso /\ [][NextIso]_vars

----------------------------------------------------------------------------
(* Two engines with the same mmr_id on one store, Keccak: the writers the  *)
(* single-writer contract forbids                                          *)

NextWriters ==
    \/ \E e \in DOMAIN pc, value \in Values : append(e, value)
    \/ \E e \in DOMAIN pc : AppendRead(e)
    \/ \E e \in DOMAIN pc : AppendWrite(e)
    \/ \E e \in DOMAIN pc : AppendWriteFails(e)

InitWriters == InitWith(<<1, 1>>, "keccak", MaxLeaves - 2)

SpecWriters == InitWriters /\ [][NextWriters]_vars

----------------------------------------------------------------------------
(* One engine, either hasher: trees created from peaks, then appended to   *)

NextPeaks ==
    \/ \E e \in DOMAIN pc :
           \E elements_count \in 0..MaxCreateSize,
              peaks_hashes \in SeqsUpTo(PeakHashes, bit_length(MaxCreateSize) - 1) :
               \E fail_at \in 0..(Len(peaks_hashes) + 3) :
                   CreateFromPeaks(e, peaks_hashes, elements_count, fail_at)
    \/ \E e \in DOMAIN pc, value \in Values : append(e, value)
    \/ \E e \in DOMAIN pc, values \in Batches : batch_append(e, values)
    \/ \E e \in DOMAIN pc : AppendRead(e)
    \/ \E e \in DOMAIN pc : AppendWrite(e)

InitPeaks == \E h \in {"keccak", "poseidon"} : InitWith(1 :> 1, h, MaxLeaves - 2)

SpecPeaks == InitPeaks /\ [][NextPeaks]_vars

----------------------------------------------------------------------------
(* Engine 1 builds tree A by appends; engine 2 is created from the peaks   *)
(* and the elements_count of A and is then given the values A is given.    *)
(* Here hist[2] holds the values appended to B since it was created.       *)

\* create_from_peaks(get_peaks(A), get_elements_count(A)) for engine b
Snapshot(a, b) ==
    /\ pc[a] = "idle"
    /\ IsOk(get_peaks(store, mmrId[a], None))
    /\ IsOk(get_elements_count(store, mmrId[a]))
    /\ create_from_peaks(b, get_peaks(store, mmrId[a], None).val,
                         get_elements_count(store, mmrId[a]).val, 0)
    /\ base' = [base EXCEPT ![b] =
                  IF IsOk(res'[b].out) THEN [some |-> TRUE, leaves |-> Len(hist[a])]
                  ELSE @]

\* the leaves A had when B was created from it
SnapshotLeaves(b) == base[b].leaves

\* the next n values that A has appended and B has not
Replay(a, b, n) == SubSeq(hist[a], SnapshotLeaves(b) + Len(hist[b]) + 1,
                          SnapshotLeaves(b) + Len(hist[b]) + n)

NextSnapshot ==
    \/ \E a \in {1}, value \in Values : append(a, value)
    \/ \E a \in {1}, values \in Batches : batch_append(a, values)
    \/ \E a \in {1}, b \in {2} : Snapshot(a, b)
    \/ \E a \in {1}, b \in {2} :
           /\ base[b].some
           /\ SnapshotLeaves(b) + Len(hist[b]) + 1 <= Len(hist[a])
           /\ append(b, Replay(a, b, 1)[1])
    \/ \E a \in {1}, b \in {2}, n \in 1..MaxBatch :
           /\ base[b].some
           /\ SnapshotLeaves(b) + Len(hist[b]) + n <= Len(hist[a])
           /\ batch_append(b, Replay(a, b, n))
    \/ \E e \in DOMAIN pc : AppendRead(e)
    \/ \E e \in DOMAIN pc : AppendWrite(e)

InitSnapshot == InitWith(<<1, 2>>, "keccak", MaxLeaves - 1)

SpecSnapshot == InitSnapshot /\ [][NextSnapshot]_vars

----------------------------------------------------------------------------
(* The tree an engine builds when it runs alone                            *)

\* batch_append as one step of a fresh engine (no cached counts) on store s
\* whose set_many succeeds: the store after the call and the result
run_batch_append(h, s, id, values) ==
    IF values = <<>> THEN Err("EmptyBatchAppend")
    ELSE LET counts == load_counts(s, id) IN
    IF ~IsOk(counts) THEN counts
    ELSE LET append_state ==
                 IF counts.val.elements_count = 0
                 THEN Ok(AppendState(counts.val.leaves_count,
                                     counts.val.elements_count, <<>>))
                 ELSE load_append_state(s, id, find_peaks(counts.val.elements_count))
         IN
    IF ~IsOk(append_state) THEN append_state
    ELSE LET built == build_append_writes(h, id, values, append_state.val) IN
    IF ~IsOk(built) THEN built
    ELSE Ok([store |-> store_set_many(s, built.val.staged_writes),
             result |-> built.val.result])

\* the store after append(values[1]), ..., append(values[n]) on an empty store
RECURSIVE SoloStore(_, _, _)
SoloStore(h, id, values) ==
    IF values = <<>> THEN EmptyStore
    ELSE run_batch_append(h, SoloStore(h, id, SubSeq(values, 1, Len(values) - 1)),
                          id, <<values[Len(values)]>>).val.store

\* the entries of s under mmr_id id
KeysOf(s, id) == {k \in DOMAIN s : k[1] = id}
TreeOf(s, id) == [k \in KeysOf(s, id) |-> s[k]]

IsAppendOp(op) == op \in {"append", "batch_append"}

----------------------------------------------------------------------------
(* One engine on the relational store, Keccak: appends in transactions     *)
(* that the host commits or rolls back, and appends outside of them        *)

NextTx ==
    \/ BeginTx
    \/ \E e \in DOMAIN pc, value \in ReadValues : append_in_tx(e, value)
    \/ \E e \in DOMAIN pc, values \in SeqsUpTo(ReadValues, MaxBatch) :
           batch_append_in_tx(e, values)
    \/ Commit
    \/ Rollback
    \/ \E e \in DOMAIN pc, value \in ReadValues : ~tx.open /\ append(e, value)
    \/ \E e \in DOMAIN pc, values \in SeqsUpTo(ReadValues, MaxBatch) :
           ~tx.open /\ batch_append(e, values)
    \/ \E e \in DOMAIN pc : AppendRead(e)
    \/ \E e \in DOMAIN pc : AppendWrite(e)

InitTx == InitWith(1 :> 1, "keccak", MaxLeaves - 1)

SpecTx == InitTx /\ [][NextTx]_vars

----------------------------------------------------------------------------
(* A writer (1) and a reader (2) on one store, called directly             *)

NextStore ==
    \/ \E entries \in StoreBatches : SetMany(1, entries)
    \/ \E entries \in StoreBatches : SetManyFails(1, entries)
    \/ \E entries \in StoreBatches : DefaultSetManyCall(1, entries)
    \/ DefaultSetManySet(1)
    \/ DefaultSetManySetFails(1)
    \/ GetMany(2, 1)

InitStore == InitWith(<<1, 1>>, "keccak", MaxLeaves)

SpecStore == InitStore /\ [][NextStore]_vars

----------------------------------------------------------------------------
(* The index arithmetic on its own (src/mmr/helpers.rs), on every size up  *)
(* to MaxSize, the sizes of no tree included                               *)

\* a caller computes f(n); res keeps the argument and the value
Computes(e, op, n, value) ==
    /\ res' = [res EXCEPT ![e] = [op |-> op, args |-> [n |-> n], out |-> Ok(value)]]
    /\ UNCHANGED <<store, cached, pc, pend, hist, lastCall, mmrId, hasher, limit,
                   failed, drifted, calls, tx, base>>

FindPeaks(e, n) == Computes(e, "find_peaks", n, find_peaks(n))

\* the number of peaks that verify_proof expects for the tree size n
ExpectedPeaks(e, n) ==
    Computes(e, "expected_peaks", n,
             leaf_count_to_peaks_count(mmr_size_to_leaf_count(n)))

LeafCountToMmrSize(e, n) ==
    Computes(e, "leaf_count_to_mmr_size", n, leaf_count_to_mmr_size(n))

\* a caller computes a function that returns a Result
Tries(e, op, n, out) ==
    /\ res' = [res EXCEPT ![e] = [op |-> op, args |-> [n |-> n], out |-> out]]
    /\ UNCHANGED <<store, cached, pc, pend, hist, lastCall, mmrId, hasher, limit,
                   failed, drifted, calls, tx, base>>

ElementIndexToLeafIndex(e, n) ==
    Tries(e, "element_index_to_leaf_index", n, element_index_to_leaf_index(n))

MapLeafIndexToElementIndex(e, n) ==
    Computes(e, "map_leaf_index_to_element_index", n,
             map_leaf_index_to_element_index(n))

ElementsCountToLeafCount(e, n) ==
    Tries(e, "elements_count_to_leaf_count", n, elements_count_to_leaf_count(n))

NextSizes ==
    \/ \E e \in DOMAIN pc, n \in 0..MaxSize : FindPeaks(e, n)
    \/ \E e \in DOMAIN pc, n \in 0..MaxSize : ExpectedPeaks(e, n)
    \/ \E e \in DOMAIN pc, n \in 0..MaxSize : LeafCountToMmrSize(e, n)
    \/ \E e \in DOMAIN pc, n \in 0..MaxSize : ElementIndexToLeafIndex(e, n)
    \/ \E e \in DOMAIN pc, n \in 0..MaxSize : MapLeafIndexToElementIndex(e, n)
    \/ \E e \in DOMAIN pc, n \in 0..MaxSize : ElementsCountToLeafCount(e, n)

InitSizes == InitWith(1 :> 1, "keccak", MaxLeaves)

SpecSizes == InitSizes /\ [][NextSizes]_vars

----------------------------------------------------------------------------
(* C1: a failing set_many leaves no trace                                  *)

\* C1: when the set_many of an append or batch_append fails, the call
\* returns an error and the store holds exactly the entries of the
\* successful appends before it (no node, count or root of the failed
\* one), whatever the tree was; and the identical append made after the
\* failure succeeds with the result and the store of a run in which the
\* failed call never happened.
C1_FailedSetManyLeavesNoTrace ==
    \A e \in DOMAIN pc :
        /\ (pc[e] = "idle" /\ IsAppendOp(res[e].op) /\ res[e].out.err = "Internal")
               => store = SoloStore(hasher, mmrId[e], hist[e])
        /\ (pc[e] = "idle" /\ IsAppendOp(res[e].op) /\ IsOk(res[e].out)
            /\ failed[e].values = lastCall[e].values
            /\ failed[e].start = lastCall[e].start)
               => LET before == SubSeq(hist[e], 1, lastCall[e].start)
                      clean == run_batch_append(hasher,
                                   SoloStore(hasher, mmrId[e], before),
                                   mmrId[e], lastCall[e].values)
                  IN  /\ IsOk(clean)
                      /\ lastCall[e].result = clean.val.result
                      /\ store = clean.val.store

\* a set_many failed on a tree of two leaves or more, and the same batch
\* appended again has succeeded
C1_Witness ==
    \E e \in DOMAIN pc :
        /\ pc[e] = "idle" /\ IsAppendOp(res[e].op) /\ IsOk(res[e].out)
        /\ failed[e].values = lastCall[e].values
        /\ failed[e].start = lastCall[e].start
        /\ lastCall[e].start >= 2
        /\ Len(lastCall[e].values) = 2

----------------------------------------------------------------------------
(* C5, C7: the stored tree of one engine                                   *)

\* the persisted counts of mmr_id id, absent keys read as 0
PersistedLeaves(id) == get_leaves_count(store, id).val
PersistedElements(id) == get_elements_count(store, id).val

HasNode(id, index) == node_key(id, index) \in DOMAIN store
NodeAt(id, index) == store[node_key(id, index)]

\* C5: after any sequence of successful append and batch_append calls from
\* the empty tree, the persisted counts satisfy
\* elements_count = 2 * leaves_count - popcount(leaves_count), and
\* find_peaks(elements_count) has popcount(leaves_count) entries, each with
\* its node hash present in the store.
C5_CountsRelation ==
    \A e \in DOMAIN pc :
        LET leaves_count == PersistedLeaves(mmrId[e])
            elements_count == PersistedElements(mmrId[e])
            peaks == find_peaks(elements_count)
        IN  /\ leaves_count = Len(hist[e])
            /\ elements_count = 2 * leaves_count - count_ones(leaves_count)
            /\ Len(peaks) = count_ones(leaves_count)
            /\ \A i \in 1..Len(peaks) : HasNode(mmrId[e], peaks[i])

\* a batch_append has grown the tree to three leaves or more with two peaks
C5_Witness ==
    \E e \in DOMAIN pc :
        /\ pc[e] = "idle" /\ res[e].op = "batch_append" /\ IsOk(res[e].out)
        /\ PersistedLeaves(mmrId[e]) >= 3
        /\ Len(find_peaks(PersistedElements(mmrId[e]))) = 2

\* the height of the node at element index p (a leaf has height 0)
RECURSIVE NodeHeight(_)
NodeHeight(p) ==
    IF p = Pow2(bit_length(p)) - 1 THEN bit_length(p) - 1
    ELSE NodeHeight(p - (Pow2(bit_length(p) - 1) - 1))

\* C7: in a tree built by append and batch_append from empty, the hash
\* stored at every internal element index p of height h is
\* hash_pair(hash at p - 2^h, hash at p - 1), and the hash stored at the
\* element index of the k-th leaf is the k-th appended value.
C7_NodesHashTheirChildren ==
    \A e \in DOMAIN pc :
        \A p \in 1..PersistedElements(mmrId[e]) :
            /\ HasNode(mmrId[e], p)
            /\ IF NodeHeight(p) = 0
               THEN /\ IsOk(element_index_to_leaf_index(p))
                    /\ NodeAt(mmrId[e], p) =
                           Hash(hist[e][element_index_to_leaf_index(p).val + 1])
               ELSE /\ ~IsOk(element_index_to_leaf_index(p))
                    /\ NodeAt(mmrId[e], p) =
                           Hash(hash_pair(hasher,
                                    NodeAt(mmrId[e], p - Pow2(NodeHeight(p)))[2],
                                    NodeAt(mmrId[e], p - 1)[2]).val)

\* a tree of four leaves with different values: a node of height 2 whose
\* children are nodes of height 1
C7_Witness ==
    \E e \in DOMAIN pc :
        /\ pc[e] = "idle" /\ IsAppendOp(res[e].op) /\ IsOk(res[e].out)
        /\ PersistedElements(mmrId[e]) >= 7
        /\ hist[e][1] # hist[e][2]
        /\ NodeAt(mmrId[e], 7)[2][2] # NodeAt(mmrId[e], 7)[2][3]

----------------------------------------------------------------------------
(* C3, C4: proofs of the appended elements                                 *)

\* the ways to name the tree size s: Some(s), and None when s is current
SizeArgs(id, s) ==
    {Some(s)} \cup (IF s = PersistedElements(id) THEN {None} ELSE {})

\* the leaf counts of the tree of e since its k-th leaf (1-based) was appended
LeavesSince(e, k) == k..Len(hist[e])

\* C3: for the value v appended as the k-th leaf at element index i, and
\* every size s the tree has had since (given as Some(s), or as None when
\* it is the current size), get_proof(i, s) succeeds and verify_proof of
\* that proof and v at s returns Ok(true).
C3_ProofsOfAppendedElementsVerify ==
    \A e \in DOMAIN pc :
        \A k \in 1..Len(hist[e]) :
            \A n \in LeavesSince(e, k) :
                \A size \in SizeArgs(mmrId[e], leaf_count_to_mmr_size(n)) :
                    LET i == map_leaf_index_to_element_index(k - 1)
                        proof == get_proof(store, mmrId[e], i, size)
                    IN  /\ IsOk(proof)
                        /\ proof.val.element_index = i
                        /\ IsOkWith(verify_proof(store, mmrId[e], hasher, proof.val,
                                                 hist[e][k], size), TRUE)

\* verify_proof has returned Ok(true) for the untouched proof of a leaf
\* with a sibling, taken at a size the tree has outgrown
C3_Witness ==
    \E e \in DOMAIN pc :
        /\ res[e].op = "verify_proof"
        /\ res[e].args.attack = "none"
        /\ IsOkWith(res[e].out, TRUE)
        /\ res[e].args.proof.siblings_hashes # <<>>
        /\ res[e].args.proof.elements_count < PersistedElements(mmrId[e])

\* every node hash the store holds, the leaf values and ZERO_HASH
HashUniverse(id) ==
    {store[k][2] : k \in {x \in KeysOf(store, id) : x[2] = "NodeHash"}}
        \cup Values \cup {ZERO_HASH}

\* the sequences of n elements of S
SeqsOfLen(S, n) == {q \in SeqsUpTo(S, n) : Len(q) = n}

\* the hashes stored on the co-path of leaf i in the tree of size s
StoredSiblings(id, i, s) ==
    LET siblings == find_siblings(i, s).val
    IN  [j \in 1..Len(siblings) |-> NodeAt(id, siblings[j])[2]]

\* the siblings a proof of element i at size s may carry: for a leaf any
\* hashes, as many as its mountain is high; for every index ZERO_HASHes, as
\* many, one more or one less
SiblingsFor(id, i, s) ==
    LET height == get_peak_info(s, i)[2]
    IN  (IF IsOk(element_index_to_leaf_index(i))
         THEN SeqsOfLen(HashUniverse(id), height) ELSE {})
            \cup {q \in SeqsUpTo({ZERO_HASH}, height + 1) : Len(q) >= height - 1}

\* the size arguments of a verification at size s: the size itself for an
\* earlier size of the tree, none (the persisted size) for the current one
VerifySizeArgs(id, s) ==
    IF s = PersistedElements(id) THEN {None} ELSE {Some(s)}

\* the proof of element i at size s with these siblings and the number of
\* peaks the size asks for
ProofWith(i, siblings, s) ==
    Proof(i, ZERO_HASH, siblings,
          [j \in 1..count_ones(mmr_size_to_leaf_count(s)) |-> ZERO_HASH], s)

\* C4: with the collision-free Keccak hasher, on a tree built by appends,
\* verify_proof returns Ok(true) only for a proof whose element_index is a
\* leaf, whose element_value is the value appended there and whose
\* siblings_hashes are the hashes stored on that leaf's co-path; for a leaf
\* index with another value or other siblings the result is Ok(false), not
\* an error.  The trees are taken when append returns: every sequence of
\* values is appended one by one too, and batch_append leaves the same
\* store (C2).
C4_WrongProofsAreRejected ==
    \A e \in DOMAIN pc :
        (pc[e] = "idle" /\ res[e].op = "append") =>
        \A n \in 1..Len(hist[e]) :
            LET s == leaf_count_to_mmr_size(n) IN
            \A size \in VerifySizeArgs(mmrId[e], s), i \in 1..s :
                LET leaf == element_index_to_leaf_index(i)
                    stored == StoredSiblings(mmrId[e], i, s)
                IN  \A siblings \in SiblingsFor(mmrId[e], i, s),
                       v \in HashUniverse(mmrId[e]) :
                        LET genuine == /\ IsOk(leaf)
                                       /\ v = hist[e][leaf.val + 1]
                                       /\ siblings = stored
                            out == verify_proof(store, mmrId[e], hasher,
                                                ProofWith(i, siblings, s), v, size)
                        IN  /\ IsOkWith(out, TRUE) => genuine
                            /\ (IsOk(leaf) /\ ~genuine) => IsOkWith(out, FALSE)

\* verify_proof has returned Ok(false) for the proof of a leaf with a
\* sibling, once with a wrong value and once with a wrong sibling
C4_Witness ==
    \E e \in DOMAIN pc :
        /\ res[e].op = "verify_proof"
        /\ res[e].args.attack = "sibling"
        /\ IsOkWith(res[e].out, FALSE)
        /\ Len(res[e].args.proof.siblings_hashes) =
               get_peak_info(res[e].args.proof.elements_count,
                             res[e].args.proof.element_index)[2]
        /\ res[e].args.proof.siblings_hashes # <<>>

----------------------------------------------------------------------------
(* C2: appends one by one and in batches build the same tree               *)

\* the BatchAppendResult of the last of the single appends of values
SoloResult(h, id, values) ==
    run_batch_append(h, SoloStore(h, id, SubSeq(values, 1, Len(values) - 1)),
                     id, <<values[Len(values)]>>).val.result

\* two results are the same error or the same value
SameResult(a, b) == a.err = b.err /\ (a.err = "none" => a.val = b.val)

\* C2: after every successful append or batch_append, whatever the split
\* into calls has been, the store holds exactly the entries that the same
\* values appended one by one leave, and the peaks, the bag, the root, the
\* counts and the last element index of the call are those of the last
\* single append, its first element index that of the single append of its
\* first value.
C2_BatchesMatchSingleAppends ==
    \A e \in DOMAIN pc :
        (pc[e] = "idle" /\ IsAppendOp(res[e].op) /\ IsOk(res[e].out)) =>
        LET id == mmrId[e]
            call == lastCall[e]
            r == call.result
            solo == SoloStore(hasher, id, hist[e])
            last == SoloResult(hasher, id, hist[e])
            first == SoloResult(hasher, id, SubSeq(hist[e], 1, call.start + 1))
        IN  /\ TreeOf(store, id) = solo
            /\ r.peaks_hashes = last.peaks_hashes
            /\ SameResult(get_peaks(store, id, None), Ok(last.peaks_hashes))
            /\ SameResult(bag_the_peaks(store, id, hasher, r.elements_count),
                          bag_peaks_hashes(hasher, find_peaks(last.elements_count),
                                           last.peaks_hashes))
            /\ r.root_hash = last.root_hash
            /\ SameResult(get_root_hash(store, id), Ok(Hash(last.root_hash)))
            /\ r.first_element_index = first.first_element_index
            /\ r.last_element_index = last.last_element_index
            /\ r.leaves_count = last.leaves_count
            /\ r.elements_count = last.elements_count
            /\ r.appended_count = Len(call.values)
            /\ res[e].out.val.root_hash = last.root_hash
            /\ res[e].out.val.elements_count = last.elements_count
            /\ res[e].out.val.leaves_count = last.leaves_count

\* a batch of several values has been appended to a tree that was not
\* empty, with a merge across the batch boundary
C2_Witness ==
    \E e \in DOMAIN pc :
        /\ pc[e] = "idle" /\ res[e].op = "batch_append" /\ IsOk(res[e].out)
        /\ Len(lastCall[e].values) = 2
        /\ lastCall[e].start = 1

----------------------------------------------------------------------------
(* C6: the stored root commits to the count and the bag of the peaks       *)

\* C6: after every successful append, batch_append and create_from_peaks
\* the RootHash entry is hash_count_and_bag of the persisted elements_count
\* and the bag of the node hashes stored at its peaks, and an append has
\* returned that root.
C6_RootCommitsToCountAndBag ==
    \A e \in DOMAIN pc :
        (/\ pc[e] = "idle"
         /\ res[e].op \in {"append", "batch_append", "create_from_peaks"}
         /\ IsOk(res[e].out)) =>
        LET id == mmrId[e]
            elements_count == get_elements_count(store, id)
            peaks == retrieve_peaks_hashes(store, id, find_peaks(elements_count.val))
            bag == bag_peaks_hashes(hasher, find_peaks(elements_count.val), peaks.val)
            root == hash_count_and_bag(hasher, elements_count.val, bag.val)
        IN  /\ IsOk(elements_count) /\ IsOk(peaks) /\ IsOk(bag) /\ IsOk(root)
            /\ store_get(store, root_hash_key(id)) = Hash(root.val)
            /\ IsAppendOp(res[e].op) => res[e].out.val.root_hash = root.val

\* a successful append to a tree that create_from_peaks has created
C6_Witness ==
    \E e \in DOMAIN pc :
        /\ pc[e] = "idle" /\ IsAppendOp(res[e].op) /\ IsOk(res[e].out)
        /\ res[e].out.val.leaves_count > Len(hist[e])
        /\ Len(find_peaks(res[e].out.val.elements_count)) >= 2

----------------------------------------------------------------------------
(* C8: appends of an engine whose cached counts have drifted               *)

\* C8: an append or batch_append called while the engine holds cached
\* counts, zero or not, that are no longer the persisted counts of its
\* mmr_id gets to no set_many and returns StoreError::Internal.
C8_DriftFailsTheNextAppend ==
    \A e \in DOMAIN pc :
        drifted[e] # "no" =>
            /\ pc[e] # "write"
            /\ pc[e] = "idle" => res[e].out.err = "Internal"

----------------------------------------------------------------------------
(* C9: trees with different mmr_ids on one store                           *)

\* what the store holds and answers for id is what store s holds and answers
SameTree(s, id) ==
    /\ TreeOf(store, id) = TreeOf(s, id)
    /\ SameResult(get_leaves_count(store, id), get_leaves_count(s, id))
    /\ SameResult(get_elements_count(store, id), get_elements_count(s, id))
    /\ SameResult(get_peaks(store, id, None), get_peaks(s, id, None))
    /\ SameResult(get_root_hash(store, id), get_root_hash(s, id))
    /\ \A i \in 1..PersistedElements(id) :
           SameResult(get_proof(store, id, i, None), get_proof(s, id, i, None))

\* at every point of every interleaving each tree is the tree its engine
\* builds alone from the values it has appended
IsolatedTrees ==
    \A e \in DOMAIN pc : SameTree(SoloStore(hasher, mmrId[e], hist[e]), mmrId[e])

\* a step in which engine e takes no part leaves the keys of its mmr_id alone
FrameOfOthers ==
    \A e \in DOMAIN pc :
        (pc'[e] = pc[e] /\ res'[e] = res[e]) =>
            TreeOf(store', mmrId[e]) = TreeOf(store, mmrId[e])

\* C9: two engines with different mmr_ids share a store: under every
\* interleaving of the phases of their appends, a step of one engine leaves
\* every key of the other mmr_id unchanged, and the counts, peaks, root and
\* proofs of each tree are those of the tree built alone.
C9_TreesAreIsolated == []IsolatedTrees /\ [][FrameOfOthers]_vars

\* both engines are inside an append at once, each on a tree with a merge
C9_Witness ==
    /\ pc[1] = "write" /\ pc[2] = "read"
    /\ Len(hist[1]) >= 2 /\ Len(hist[2]) >= 2
    /\ mmrId[1] # mmrId[2]

----------------------------------------------------------------------------
(* C10: create_from_peaks that fails                                       *)

\* C10: when create_from_peaks returns an error, the store holds what it
\* held before the call.
C10_FailedCreateLeavesNoTrace ==
    \A e \in DOMAIN pc :
        (res[e].op = "create_from_peaks" /\ ~IsOk(res[e].out)) =>
            store = res[e].args.before

----------------------------------------------------------------------------
(* C11: a tree created from the peaks of another                           *)

\* C11: tree B created by create_from_peaks(get_peaks(A), elements_count(A))
\* from a tree A that appends have built (one leaf or more; a tree never
\* appended to has no root, the tree created from it has one)
\* replays the values A is given after the snapshot.  Whenever both are
\* between calls and B has caught up with A, B has the counts, peaks, bag
\* and root of A, the proofs of the elements appended since the snapshot
\* are the same in both and verify, and when the last calls of A and B
\* appended the same values at the same place they returned the same result.
C11_TreeFromPeaksFollowsTheOriginal ==
    LET A == mmrId[1]
        B == mmrId[2]
        snap == SnapshotLeaves(2)
    IN  (base[2].some /\ pc[1] = "idle" /\ pc[2] = "idle" /\ snap >= 1
         /\ Len(hist[1]) = snap + Len(hist[2])) =>
        /\ SameResult(get_leaves_count(store, B), get_leaves_count(store, A))
        /\ SameResult(get_elements_count(store, B), get_elements_count(store, A))
        /\ IsOk(get_peaks(store, B, None))
        /\ SameResult(get_peaks(store, B, None), get_peaks(store, A, None))
        /\ IsOk(bag_the_peaks_of(store, B, hasher, None))
        /\ SameResult(bag_the_peaks_of(store, B, hasher, None),
                      bag_the_peaks_of(store, A, hasher, None))
        /\ IsOk(get_root_hash(store, B))
        /\ get_root_hash(store, B).val # None
        /\ SameResult(get_root_hash(store, B), get_root_hash(store, A))
        /\ \A k \in (snap + 1)..Len(hist[1]) :
               LET i == map_leaf_index_to_element_index(k - 1)
                   proof == get_proof(store, B, i, None)
               IN  /\ IsOk(proof)
                   /\ SameResult(proof, get_proof(store, A, i, None))
                   /\ IsOkWith(verify_proof(store, B, hasher, proof.val,
                                            hist[1][k], None), TRUE)
                   /\ IsOkWith(verify_proof(store, A, hasher, proof.val,
                                            hist[1][k], None), TRUE)
        /\ (/\ lastCall[2].values # <<>>
            /\ lastCall[1].values = lastCall[2].values
            /\ lastCall[1].start = snap + lastCall[2].start) =>
               /\ lastCall[2].result = lastCall[1].result
               /\ (res[1].op = res[2].op /\ IsOk(res[1].out) /\ IsOk(res[2].out))
                      => res[2].out.val = res[1].out.val

\* B was created from a tree with leaves, and a batch of two that A and B
\* appended at the same place has merged into the peaks of the snapshot
C11_Witness ==
    /\ base[2].some /\ pc[1] = "idle" /\ pc[2] = "idle"
    /\ SnapshotLeaves(2) >= 1
    /\ Len(hist[1]) = SnapshotLeaves(2) + Len(hist[2])
    /\ Len(lastCall[2].values) = 2
    /\ lastCall[1].values = lastCall[2].values
    /\ lastCall[1].start = SnapshotLeaves(2) + lastCall[2].start
    /\ res[1].op = res[2].op /\ IsOk(res[1].out) /\ IsOk(res[2].out)

----------------------------------------------------------------------------
(* C12: tampered peaks in a proof                                          *)

\* stateful verify_proof on the arguments of the last verification of e
StatefulOnSame(e) ==
    verify_proof(store, mmrId[e], hasher, res[e].args.proof,
                 res[e].args.element_value, res[e].args.elements_count)

\* the ordinal (0-based) of the mountain of the element of the last proof
PeakOrdinal(e) ==
    get_peak_info(res[e].args.proof.elements_count,
                  res[e].args.proof.element_index)[1]

\* C12 as stated: for the proof of any appended element, with
\* peaks_hashes[0] replaced by another hash, verify_proof_stateless returns
\* Ok(false) and verify_proof returns Ok(true).
C12_TamperedFirstPeakIsRejected ==
    \A e \in DOMAIN pc :
        (res[e].op = "verify_proof_stateless" /\ res[e].args.attack = "peak") =>
            /\ IsOkWith(res[e].out, FALSE)
            /\ IsOkWith(StatefulOnSame(e), TRUE)

\* C12 amended: for the proof of any appended element, with the peak hash
\* of the element's own mountain replaced by another hash,
\* verify_proof_stateless returns Ok(false) and verify_proof Ok(true); with
\* peaks_hashes[0] replaced, verify_proof_stateless returns Ok(false) for
\* an element of the first mountain and Ok(true) for one of a later
\* mountain, and verify_proof Ok(true); untouched, the proof verifies
\* statelessly.
C12_TamperedOwnPeakIsRejected ==
    \A e \in DOMAIN pc :
        res[e].op = "verify_proof_stateless" =>
            /\ res[e].args.attack = "own_peak" =>
                   /\ IsOkWith(res[e].out, FALSE)
                   /\ IsOkWith(StatefulOnSame(e), TRUE)
            /\ res[e].args.attack = "peak" =>
                   /\ IsOkWith(res[e].out, PeakOrdinal(e) # 0)
                   /\ IsOkWith(StatefulOnSame(e), TRUE)
            /\ res[e].args.attack = "none" => IsOkWith(res[e].out, TRUE)

\* verify_proof_stateless has rejected the proof of an element of the
\* second mountain whose own peak hash was replaced
C12_Witness ==
    \E e \in DOMAIN pc :
        /\ res[e].op = "verify_proof_stateless"
        /\ res[e].args.attack = "own_peak"
        /\ PeakOrdinal(e) = 1
        /\ IsOkWith(res[e].out, FALSE)

----------------------------------------------------------------------------
(* C13: the store calls of verify_proof_stateless                          *)

\* C13: verify_proof_stateless, with elements_count given or omitted,
\* issues no get, get_many, set or set_many on the store.
C13_StatelessVerifyMakesNoStoreCall ==
    \A e \in DOMAIN pc :
        res[e].op = "verify_proof_stateless" =>
            /\ CountOf(calls[e], "get") = 0
            /\ CountOf(calls[e], "get_many") = 0
            /\ CountOf(calls[e], "set") = 0
            /\ CountOf(calls[e], "set_many") = 0

----------------------------------------------------------------------------
(* C14: the read operations leave the store alone                          *)

ReadOps ==
    {"get_proof", "verify_proof", "verify_proof_stateless", "get_peaks",
     "bag_the_peaks", "get_root_hash", "get_leaves_count", "get_elements_count"}

\* a call of a read operation of engine e, from its start to its return
ReadStep(e) == pc[e] = "idle" /\ pc'[e] = "idle" /\ res'[e].op \in ReadOps

\* C14: get_proof, verify_proof, verify_proof_stateless, get_peaks,
\* bag_the_peaks, get_root_hash, get_leaves_count and get_elements_count
\* leave the stored entries as they were, whether they return Ok or Err.
C14_ReadsNeverChangeTheStore ==
    [][\A e \in DOMAIN pc : ReadStep(e) => store' = store]_vars

\* a read of a tree of two leaves has gone to the store and failed
C14_Witness ==
    \E e \in DOMAIN pc :
        /\ res[e].op \in ReadOps
        /\ ~IsOk(res[e].out)
        /\ calls[e] # <<>>
        /\ Len(hist[e]) >= 2
        /\ store # EmptyStore

----------------------------------------------------------------------------
(* C15: the store calls of an append in the steady state                   *)

\* C15: on an engine that has completed a successful append or batch_append
\* before, a successful append or batch_append issues one get_many and one
\* set_many, no get and no set, whatever the length of the batch.  (The
\* engine is the one constructed at the start: it has completed an append
\* when the call started on a tree with leaves.)
C15_SteadyAppendIsOneReadOneWrite ==
    \A e \in DOMAIN pc :
        (IsAppendOp(res[e].op) /\ IsOk(res[e].out) /\ lastCall[e].start >= 1) =>
            /\ CountOf(calls[e], "get_many") = 1
            /\ CountOf(calls[e], "set_many") = 1
            /\ CountOf(calls[e], "get") = 0
            /\ CountOf(calls[e], "set") = 0

\* the second append of the engine was a batch of two values
C15_Witness ==
    \E e \in DOMAIN pc :
        /\ res[e].op = "batch_append" /\ IsOk(res[e].out)
        /\ lastCall[e].start = 1
        /\ res[e].out.val.appended_count = 2
        /\ CountOf(calls[e], "get_many") = 1
        /\ Len(calls[e]) = 2

----------------------------------------------------------------------------
(* C16, C17: appends in a transaction, rolled back and committed           *)

\* the leaves of the tree of e when the transaction began
LeavesAtBegin(e) == get_leaves_count(tx.start, mmrId[e]).val

\* C16: after a transaction in which batch_append_in_tx or append_in_tx
\* succeeded is rolled back, the store holds the entries it held when the
\* transaction began (counts, root and nodes), the engine holds no cached
\* counts, and the engine's next append starts from the persisted counts:
\* it succeeds with the result and the store of that append made on the
\* store of before the transaction.
C16_RollbackLeavesNoTrace ==
    \A e \in DOMAIN pc :
        (tx.outcome = "rolled_back" /\ LeavesIn(tx.batches, e) > 0) =>
            /\ (pc[e] = "idle" /\ res[e].op \in InTxOps) =>
                   /\ store = tx.start
                   /\ SameResult(load_counts(store, mmrId[e]),
                                 load_counts(tx.start, mmrId[e]))
                   /\ SameResult(get_root_hash(store, mmrId[e]),
                                 get_root_hash(tx.start, mmrId[e]))
                   /\ (tx.start = EmptyStore =>
                          /\ IsOkWith(get_leaves_count(store, mmrId[e]), 0)
                          /\ IsOkWith(get_elements_count(store, mmrId[e]), 0)
                          /\ IsOkWith(get_root_hash(store, mmrId[e]), None))
                   /\ ~cached[e].some
            /\ (pc[e] \in {"read", "write"} /\ Len(hist[e]) = LeavesAtBegin(e)) =>
                   IsOkWith(load_counts(store, mmrId[e]), pend[e].counts)
            /\ (pc[e] = "idle" /\ IsAppendOp(res[e].op)
                /\ Len(hist[e]) <= LeavesAtBegin(e) + Len(lastCall[e].values)) =>
                   \/ res[e].out.err = "EmptyBatchAppend"
                   \/ /\ IsOk(res[e].out)
                      /\ Len(hist[e]) = LeavesAtBegin(e) + Len(lastCall[e].values)
                      /\ LET plain == run_batch_append(hasher, tx.start, mmrId[e],
                                                       lastCall[e].values)
                         IN  /\ IsOk(plain)
                             /\ plain.val.result = lastCall[e].result
                             /\ plain.val.store = store

\* a batch of two values was appended in a transaction to a tree of one
\* leaf, the transaction was rolled back and the engine has appended again
C16_Witness ==
    \E e \in DOMAIN pc :
        /\ tx.outcome = "rolled_back"
        /\ LeavesIn(tx.batches, e) = 2
        /\ LeavesAtBegin(e) = 1
        /\ pc[e] = "idle" /\ IsAppendOp(res[e].op) /\ IsOk(res[e].out)
        /\ Len(hist[e]) = 2

\* the batches appended one after the other by batch_append, from store s on
RECURSIVE Sequentially(_, _, _, _)
Sequentially(h, s, id, batches) ==
    IF batches = <<>> THEN [store |-> s, results |-> <<>>]
    ELSE LET before == Sequentially(h, s, id, SubSeq(batches, 1, Len(batches) - 1))
             last == run_batch_append(h, before.store, id, batches[Len(batches)].values)
         IN  [store |-> last.val.store,
              results |-> Append(before.results, last.val.result)]

\* C17: the append_in_tx and batch_append_in_tx calls of one transaction
\* compose: while the transaction is open and after its commit, the
\* entries seen through it (after the commit: the store) and the results
\* of its calls are those of the same batches appended one after the other
\* by batch_append without a transaction.
C17_AppendsInOneTransactionCompose ==
    \A e \in DOMAIN pc :
        (/\ tx.open \/ tx.outcome = "committed"
         /\ pc[e] = "idle"
         /\ Len(hist[e]) = LeavesAtBegin(e)
                           + (IF tx.open THEN 0 ELSE LeavesIn(tx.batches, e))) =>
            LET plain == Sequentially(hasher, tx.start, mmrId[e], tx.batches)
            IN  /\ (IF tx.open THEN tx.writes @@ store ELSE store) = plain.store
                /\ \A i \in 1..Len(tx.batches) :
                       tx.batches[i].result = plain.results[i]

\* two calls in one transaction on a tree of one leaf, then the commit
C17_Witness ==
    \E e \in DOMAIN pc :
        /\ tx.outcome = "committed"
        /\ Len(tx.batches) = 2
        /\ LeavesAtBegin(e) = 1
        /\ pc[e] = "idle"
        /\ Len(hist[e]) = 3
        /\ res[e].op \in InTxOps

----------------------------------------------------------------------------
(* C18: set_many is all or nothing                                         *)

\* C18: when set_many has returned, Ok or Err, the store holds every entry
\* of the batch or none of them, and a get_many of the keys of a batch
\* returns the values of before the batch or those of the whole batch;
\* for InMemoryStore::set_many and for the set_many the Store trait
\* provides.
C18_SetManyIsAllOrNothing ==
    /\ \A w \in DOMAIN pc :
           (pc[w] = "idle" /\ res[w].op = "set_many") =>
               \/ store = res[w].args.before
               \/ store = store_set_many(res[w].args.before, res[w].args.entries)
    /\ \A p \in DOMAIN pc :
           res[p].op = "get_many" =>
               \/ res[p].out.val = store_get_many(res[p].args.before, res[p].args.keys)
               \/ res[p].out.val =
                      store_get_many(store_set_many(res[p].args.before,
                                                    res[p].args.entries),
                                     res[p].args.keys)

----------------------------------------------------------------------------
(* C19: the leaves of one engine are stored in the order of its calls      *)

\* the element index of the k-th leaf (0-based) of a tree
LeafPosition(k) == 2 * k + 1 - count_ones(k)

\* C19: the k-th leaf an engine has appended (0-based, over all its append
\* and batch_append calls) is stored at element index
\* 2k + 1 - popcount(k) = map_leaf_index_to_element_index(k); the
\* element_index or first_element_index that a call returns is the
\* elements_count of before the call plus one, and last_element_index is
\* the element index of the last leaf of the batch.
C19_LeavesAreStoredInCallOrder ==
    \A e \in DOMAIN pc :
        /\ \A k \in 0..(Len(hist[e]) - 1) :
               /\ map_leaf_index_to_element_index(k) = LeafPosition(k)
               /\ store_get(store, node_key(mmrId[e], LeafPosition(k)))
                      = Hash(hist[e][k + 1])
        /\ pc[e] = "write" =>
               /\ IsOkWith(get_elements_count(store, mmrId[e]),
                           pend[e].result.first_element_index - 1)
               /\ pend[e].result.last_element_index
                      = LeafPosition(Len(hist[e]) + Len(pend[e].values) - 1)
        /\ (pc[e] = "idle" /\ IsAppendOp(res[e].op) /\ IsOk(res[e].out)) =>
               /\ lastCall[e].start + Len(lastCall[e].values) = Len(hist[e])
               /\ lastCall[e].result.first_element_index = LeafPosition(lastCall[e].start)
               /\ lastCall[e].result.last_element_index = LeafPosition(Len(hist[e]) - 1)
               /\ IF res[e].op = "append"
                  THEN res[e].out.val.element_index = LeafPosition(lastCall[e].start)
                  ELSE /\ res[e].out.val.first_element_index
                             = LeafPosition(lastCall[e].start)
                       /\ res[e].out.val.last_element_index
                             = LeafPosition(Len(hist[e]) - 1)

\* a batch of two leaves appended to a tree of two: the leaves are at the
\* indices 4 and 5, the merges of the last leaf end the tree at index 7
C19_Witness ==
    \E e \in DOMAIN pc :
        /\ pc[e] = "idle" /\ res[e].op = "batch_append" /\ IsOk(res[e].out)
        /\ lastCall[e].start = 2 /\ Len(lastCall[e].values) = 2
        /\ res[e].out.val.first_element_index = 4
        /\ res[e].out.val.last_element_index = 5
        /\ res[e].out.val.elements_count = 7

----------------------------------------------------------------------------
(* C20: the number of peaks of a size                                      *)

\* n is the size of a tree: of no leaf, or of some number of leaves
IsMmrSize(n) == \E leaves \in 0..n : 2 * leaves - count_ones(leaves) = n

\* the number of peaks verify_proof expects for the size n
PeaksExpectedFor(n) == count_ones(mmr_size_to_leaf_count(n))

\* C20 as stated: for every natural n, the size of a tree or not, find_peaks(n)
\* has popcount(mmr_size_to_leaf_count(n)) indices.
C20_PeaksCountOfEverySize ==
    \A e \in DOMAIN pc :
        /\ res[e].op = "find_peaks" =>
               Len(res[e].out.val) = PeaksExpectedFor(res[e].args.n)
        /\ res[e].op = "expected_peaks" =>
               res[e].out.val = Len(find_peaks(res[e].args.n))

\* C20, amended: for every n that is the size of a tree, find_peaks(n) has
\* popcount(mmr_size_to_leaf_count(n)) indices; for every other n,
\* find_peaks(n) is empty and popcount(mmr_size_to_leaf_count(n)) is 1 or
\* more.
C20_PeaksCountOfEveryMmrSize ==
    \A e \in DOMAIN pc :
        /\ res[e].op = "find_peaks" =>
               IF IsMmrSize(res[e].args.n)
               THEN Len(res[e].out.val) = PeaksExpectedFor(res[e].args.n)
               ELSE res[e].out.val = <<>> /\ PeaksExpectedFor(res[e].args.n) >= 1
        /\ res[e].op = "expected_peaks" =>
               IF IsMmrSize(res[e].args.n)
               THEN res[e].out.val = Len(find_peaks(res[e].args.n))
               ELSE res[e].out.val >= 1 /\ find_peaks(res[e].args.n) = <<>>

\* find_peaks of 11, the size of the tree of 7 leaves, returned 3 indices
C20_Witness ==
    \E e \in DOMAIN pc :
        /\ res[e].op = "find_peaks"
        /\ res[e].args.n = 11
        /\ IsMmrSize(res[e].args.n)
        /\ res[e].out.val = <<7, 10, 11>>

----------------------------------------------------------------------------
(* C21: leaf indices and element indices                                   *)

\* i is the element index of a leaf: of the k-th, for some k
IsLeafElementIndex(i) == \E k \in 0..i : 2 * k + 1 - count_ones(k) = i

\* C21: where element_index_to_leaf_index(i) succeeds,
\* map_leaf_index_to_element_index takes its value back to i; for every
\* leaf index k, element_index_to_leaf_index(map_leaf_index_to_element_index(k))
\* is k; element_index_to_leaf_index(0) fails with InvalidElementIndex, and
\* it fails on every index of an internal node.
C21_LeafAndElementIndexRoundTrip ==
    \A e \in DOMAIN pc :
        /\ res[e].op = "element_index_to_leaf_index" =>
               /\ IsOk(res[e].out) =>
                      map_leaf_index_to_element_index(res[e].out.val) = res[e].args.n
               /\ res[e].args.n = 0 => res[e].out.err = "InvalidElementIndex"
               /\ (res[e].args.n > 0 /\ ~IsLeafElementIndex(res[e].args.n)) =>
                      ~IsOk(res[e].out)
        /\ res[e].op = "map_leaf_index_to_element_index" =>
               IsOkWith(element_index_to_leaf_index(res[e].out.val), res[e].args.n)

\* element 8 is the leaf 4, element 7 is an internal node
C21_Witness ==
    \E e \in DOMAIN pc :
        /\ res[e].op = "element_index_to_leaf_index"
        /\ res[e].args.n = 8
        /\ IsOkWith(res[e].out, 4)
        /\ ~IsOk(element_index_to_leaf_index(7))

----------------------------------------------------------------------------
(* C22: the peaks of a size                                                *)

\* the sizes of the mountains that end at the peaks
MountainSizes(peaks) ==
    [j \in 1..Len(peaks) |-> peaks[j] - (IF j = 1 THEN 0 ELSE peaks[j - 1])]

\* C22: find_peaks(count) is empty exactly when count is 0 or no size of a
\* tree (no 2L - popcount(L)); for the size of a tree the indices increase
\* strictly, the sizes of their mountains decrease strictly and the last
\* index is count; elements_count_to_leaf_count(count) fails with
\* InvalidElementCount on exactly the sizes of no tree.
C22_FindPeaksDecomposesTreeSizes ==
    \A e \in DOMAIN pc :
        /\ res[e].op = "find_peaks" =>
               LET count == res[e].args.n
                   peaks == res[e].out.val
                   sizes == MountainSizes(peaks)
               IN  /\ peaks = <<>> <=> (count = 0 \/ ~IsMmrSize(count))
                   /\ (count > 0 /\ IsMmrSize(count)) =>
                          /\ \A j \in 2..Len(peaks) :
                                 peaks[j - 1] < peaks[j] /\ sizes[j - 1] > sizes[j]
                          /\ peaks[1] > 0
                          /\ peaks[Len(peaks)] = count
        /\ res[e].op = "elements_count_to_leaf_count" =>
               IF IsMmrSize(res[e].args.n)
               THEN IsOk(res[e].out)
               ELSE res[e].out.err = "InvalidElementCount"

\* find_peaks of 10, the size of the tree of 6 leaves: mountains of 7 and 3
C22_Witness ==
    \E e \in DOMAIN pc :
        /\ res[e].op = "find_peaks"
        /\ res[e].args.n = 10
        /\ res[e].out.val = <<7, 10>>
        /\ find_peaks(9) = <<>>
        /\ elements_count_to_leaf_count(9).err = "InvalidElementCount"

----------------------------------------------------------------------------
(* One engine, Keccak: trees created from peaks with an elements_count     *)
(* close to u64::MAX, then appended to                                     *)

\* a peaks list of the length create_from_peaks expects for elements_count
PeaksOfOnes(elements_count) ==
    [j \in 1..Len(find_peaks(elements_count)) |-> Word(1)]

NextOverflow ==
    \/ \E e \in DOMAIN pc :
           \E elements_count \in (U64_MAX - OverflowMargin)..U64_MAX :
               CreateFromPeaks(e, PeaksOfOnes(elements_count), elements_count, 0)
    \/ \E e \in DOMAIN pc, value \in Values : append(e, value)
    \/ \E e \in DOMAIN pc, values \in Batches : batch_append(e, values)
    \/ \E e \in DOMAIN pc : AppendRead(e)
    \/ \E e \in DOMAIN pc : AppendWrite(e)

InitOverflow == InitWith(1 :> 1, "keccak", MaxLeaves - 1)

SpecOverflow == InitOverflow /\ [][NextOverflow]_vars

----------------------------------------------------------------------------
(* C23: counters that would leave the 64-bit range                         *)

\* the elements_count after n more leaves, in unbounded arithmetic
RECURSIVE ElementsAfter(_, _, _)
ElementsAfter(leaves_count, elements_count, n) ==
    IF n = 0 THEN elements_count
    ELSE ElementsAfter(leaves_count + 1,
                       elements_count + 1 + trailing_ones(leaves_count), n - 1)

\* a counter step of appending n leaves would exceed u64::MAX
CountersExceed(leaves_count, elements_count, n) ==
    \/ ElementsAfter(leaves_count, elements_count, n) > U64_MAX
    \/ leaves_count + n > U64_MAX

\* every counter a staged batch carries is a u64
StagedFits(p) ==
    /\ \A j \in 1..Len(p.staged_writes) :
           /\ p.staged_writes[j][1][3] <= U64_MAX
           /\ p.staged_writes[j][2][1] = "U64" => p.staged_writes[j][2][2] <= U64_MAX
    /\ p.result.first_element_index <= p.result.last_element_index
    /\ p.result.last_element_index <= p.result.elements_count
    /\ p.result.elements_count <= U64_MAX
    /\ p.result.leaves_count <= U64_MAX

OverflowStep(e) ==
    (pc[e] = "read" /\ pc'[e] # "read") =>
        LET leaves_count == pend[e].counts.leaves_count
            elements_count == pend[e].counts.elements_count
            n == Len(pend[e].values)
            exceeds == CountersExceed(leaves_count, elements_count, n)
        IN  /\ exceeds =>
                /\ pc'[e] = "idle"
                /\ ~IsOk(res'[e].out)
                /\ store' = store
                /\ CountOf(calls'[e], "set_many") = 0
            /\ (exceeds /\ IsMmrSize(elements_count)) => res'[e].out.err = "Overflow"
            /\ res'[e].out.err = "Overflow" => exceeds
            /\ pc'[e] = "write" =>
                /\ StagedFits(pend'[e])
                /\ pend'[e].result.elements_count =
                       ElementsAfter(leaves_count, elements_count, n)
                /\ pend'[e].result.leaves_count = leaves_count + n

----------------------------------------------------------------------------
(* One engine, Keccak: create_from_peaks on empty and on written trees,    *)
(* each result recording the peaks and the count it was called with        *)

\* base[e] then tells the leaves the tree of e was created with
CreateFromPeaksOf(e, peaks_hashes, elements_count) ==
    /\ create_from_peaks_call(e, peaks_hashes, elements_count, 0,
           [before |-> store, peaks_hashes |-> peaks_hashes,
            elements_count |-> elements_count])
    /\ base' = [base EXCEPT ![e] =
                  IF IsOk(res'[e].out)
                  THEN [some |-> TRUE, leaves |-> mmr_size_to_leaf_count(elements_count)]
                  ELSE @]

NextCreate ==
    \/ \E e \in DOMAIN pc :
           \E elements_count \in 0..MaxCreateSize,
              peaks_hashes \in SeqsUpTo(PeakHashes, bit_length(MaxCreateSize) - 1) :
               CreateFromPeaksOf(e, peaks_hashes, elements_count)
    \/ \E e \in DOMAIN pc, value \in Values : append(e, value)
    \/ \E e \in DOMAIN pc : AppendRead(e)
    \/ \E e \in DOMAIN pc : AppendWrite(e)

InitCreate == InitWith(1 :> 1, "keccak", MaxLeaves - 2)

SpecCreate == InitCreate /\ [][NextCreate]_vars

----------------------------------------------------------------------------
(* C24: the preconditions of create_from_peaks                             *)

\* the elements_count persisted in store s for engine e, 0 when there is none
PersistedElementsCount(s, e) ==
    IF elements_count_key(mmrId[e]) \in DOMAIN s
    THEN s[elements_count_key(mmrId[e])][2] ELSE 0

\* C24: create_from_peaks fails with NonEmptyMmr exactly when the persisted
\* elements_count of its mmr_id is nonzero, otherwise with
\* InvalidPeaksCountForElements exactly when the number of peaks given differs
\* from the number of peaks of elements_count, and in both cases the store is
\* the store the call found
C24_CreateFromPeaksChecksBeforeWriting ==
    \A e \in DOMAIN pc :
        res[e].op = "create_from_peaks" =>
            LET before == res[e].args.before
                nonempty == PersistedElementsCount(before, e) # 0
                mismatch == Len(res[e].args.peaks_hashes) #
                                Len(find_peaks(res[e].args.elements_count))
            IN  /\ (res[e].out.err = "NonEmptyMmr") = nonempty
                /\ (res[e].out.err = "InvalidPeaksCountForElements") =
                       (~nonempty /\ mismatch)
                /\ (nonempty \/ mismatch) => store = before
                /\ (~nonempty /\ ~mismatch) => IsOk(res[e].out)

\* both refusals are on record: a written tree, and a wrong number of peaks
\* for an empty one
C24_Witness ==
    \E e \in DOMAIN pc :
        /\ res[e].op = "create_from_peaks"
        /\ res[e].out.err = "NonEmptyMmr"
        /\ Len(hist[e]) >= 1
        /\ Len(res[e].args.peaks_hashes) = Len(find_peaks(res[e].args.elements_count))

----------------------------------------------------------------------------
(* C25: the tree never written to and the tree created from no peaks       *)

\* what the reads of engine e return on store s is what an empty tree has,
\* with `root` under the root key
ReadsAsEmpty(s, e, root) ==
    /\ IsOkWith(get_leaves_count(s, mmrId[e]), 0)
    /\ IsOkWith(get_elements_count(s, mmrId[e]), 0)
    /\ IsOkWith(get_peaks(s, mmrId[e], None), <<>>)
    /\ IsOkWith(bag_the_peaks_of(s, mmrId[e], hasher, None), ZERO_HASH)
    /\ IsOkWith(get_root_hash(s, mmrId[e]), root)

\* the root create_from_peaks stores for the tree of no elements
ZeroRoot == Hash(hash_count_and_bag(hasher, 0, ZERO_HASH).val)

EmptyTreeStep(e) ==
    /\ store' = EmptyStore => ReadsAsEmpty(store', e, None)
    /\ (/\ res'[e].op = "create_from_peaks"
        /\ IsOk(res'[e].out)
        /\ res'[e].args.elements_count = 0) =>
            /\ res'[e].args.peaks_hashes = <<>>
            /\ ReadsAsEmpty(store', e, ZeroRoot)
    /\ (/\ pc[e] = "write"
        /\ pc'[e] = "idle"
        /\ IsOk(res'[e].out)
        /\ ReadsAsEmpty(store, e, None) \/ ReadsAsEmpty(store, e, ZeroRoot)) =>
            /\ res'[e].out.val.leaves_count = 1
            /\ res'[e].out.val.elements_count = 1
            /\ res'[e].out.val.element_index = 1

\* C25: a tree never written to reads leaves_count 0, elements_count 0, no
\* peaks, the bag ZERO_HASH and no root; after create_from_peaks([], 0) the
\* reads are the same except for the root, which is
\* hash_count_and_bag(0, ZERO_HASH); and the append of one value to either
\* returns leaves_count 1 and elements_count 1
C25_EmptyAndZeroCreatedTrees == [][\A e \in DOMAIN pc : EmptyTreeStep(e)]_vars

\* a value was appended to the tree created from no peaks
C25_Witness ==
    \E e \in DOMAIN pc :
        /\ base[e].some /\ base[e].leaves = 0
        /\ res[e].op = "append"
        /\ IsOk(res[e].out)
        /\ res[e].out.val.leaves_count = 1
        /\ Len(hist[e]) = 1

----------------------------------------------------------------------------
(* One engine, Poseidon: get_proof of indices in and outside the tree, and *)
(* the verification of its proofs after a caller has changed their shape.  *)
(* The result of get_proof records the index and the count it was given.   *)

GetProofOf(e, element_index, elements_count) ==
    Reads(e, "get_proof",
          [with_size |-> elements_count # None, element_index |-> element_index,
           elements_count |-> elements_count],
          get_proof(store, mmrId[e], element_index, elements_count),
          get_proof_calls(store, mmrId[e], element_index, elements_count))

NextMalformed ==
    \/ \E e \in DOMAIN pc, value \in ReadValues : append(e, value)
    \/ \E e \in DOMAIN pc : AppendRead(e)
    \/ \E e \in DOMAIN pc : AppendWrite(e)
    \/ \E e \in DOMAIN pc :
           \E element_index \in 0..(leaf_count_to_mmr_size(Len(hist[e])) + 1),
              elements_count \in SizeOptions(e) :
               GetProofOf(e, element_index, elements_count)
    \/ \E e \in DOMAIN pc, attack \in Malformations : VerifyProof(e, attack)
    \/ \E e \in DOMAIN pc, attack \in Malformations : VerifyProofStateless(e, attack)

InitMalformed == InitWith(1 :> 1, "poseidon", MaxLeaves - 1)

SpecMalformed == InitMalformed /\ [][NextMalformed]_vars

----------------------------------------------------------------------------
(* C26: get_proof of an index outside the tree                             *)

\* the tree size a read of engine e resolves elements_count to
ResolvedSize(e, elements_count) ==
    IF elements_count = None THEN PersistedElementsCount(store, e)
    ELSE elements_count[2]

\* C26: get_proof(element_index, elements_count?) fails with
\* InvalidElementIndex, and returns no proof, whenever element_index is 0 or
\* greater than the elements_count given, or than the persisted one when none
\* is given
C26_GetProofRefusesIndexOutsideTheTree ==
    \A e \in DOMAIN pc :
        (/\ res[e].op = "get_proof"
         /\ \/ res[e].args.element_index = 0
            \/ res[e].args.element_index > ResolvedSize(e, res[e].args.elements_count)) =>
            /\ res[e].out.err = "InvalidElementIndex"
            /\ res[e].out.val = <<>>

\* get_proof was refused an index of the tree that the size it was given
\* leaves out
C26_Witness ==
    \E e \in DOMAIN pc :
        /\ res[e].op = "get_proof"
        /\ res[e].args.with_size
        /\ res[e].args.element_index > res[e].args.elements_count[2]
        /\ res[e].args.element_index <= PersistedElementsCount(store, e)
        /\ res[e].out.err = "InvalidElementIndex"

----------------------------------------------------------------------------
(* C27, C28: the shape of a proof                                          *)

IsVerifyOp(op) == op \in {"verify_proof", "verify_proof_stateless"}

\* the proof has another number of peaks than the tree of the resolved size
PeaksCountWrong(e) ==
    Len(res[e].args.proof.peaks_hashes) #
        leaf_count_to_peaks_count(
            mmr_size_to_leaf_count(ResolvedSize(e, res[e].args.elements_count)))

\* the index of the proof is outside the tree of the resolved size
IndexOutside(e) ==
    \/ res[e].args.proof.element_index = 0
    \/ res[e].args.proof.element_index > ResolvedSize(e, res[e].args.elements_count)

\* the verification of a proof of either wrong shape was an error
ShapeIsNeverAnswered(e) == (PeaksCountWrong(e) \/ IndexOutside(e)) => ~IsOk(res[e].out)

\* the statement without the order of the two checks: an index outside the
\* tree is InvalidElementIndex whatever the number of peaks
C27_EachShapeHasItsError ==
    \A e \in DOMAIN pc :
        IsVerifyOp(res[e].op) =>
            /\ PeaksCountWrong(e) => res[e].out.err = "InvalidPeaksCount"
            /\ IndexOutside(e) => res[e].out.err = "InvalidElementIndex"
            /\ ShapeIsNeverAnswered(e)

\* C27: verify_proof and verify_proof_stateless return the error
\* InvalidPeaksCount when the number of peaks of the proof differs from the
\* popcount of the leaf count of the resolved tree size, and the error
\* InvalidElementIndex when the number of peaks is right and the index of the
\* proof is 0 or greater than the tree size; neither is ever answered with
\* Ok(false) or Ok(true)
C27_ShapeErrorsInTheOrderOfTheChecks ==
    \A e \in DOMAIN pc :
        IsVerifyOp(res[e].op) =>
            /\ PeaksCountWrong(e) => res[e].out.err = "InvalidPeaksCount"
            /\ (~PeaksCountWrong(e) /\ IndexOutside(e)) =>
                   res[e].out.err = "InvalidElementIndex"
            /\ ShapeIsNeverAnswered(e)

\* a proof with the index 0 and a peak too many was verified without the store
C27_Witness ==
    \E e \in DOMAIN pc :
        /\ res[e].op = "verify_proof_stateless"
        /\ PeaksCountWrong(e)
        /\ IndexOutside(e)
        /\ res[e].out.err = "InvalidPeaksCount"

\* the height of the mountain of the tree of `size` that holds element_index
MountainHeight(size, element_index) ==
    LET peaks == find_peaks(size)
        j == CHOOSE k \in 1..Len(peaks) :
                 /\ element_index <= peaks[k]
                 /\ k = 1 \/ element_index > peaks[k - 1]
    IN  bit_length(MountainSizes(peaks)[j]) - 1

\* the proof has more or fewer siblings than its mountain is high
SiblingsCountWrong(e) ==
    Len(res[e].args.proof.siblings_hashes) #
        MountainHeight(ResolvedSize(e, res[e].args.elements_count),
                       res[e].args.proof.element_index)

\* the verification answered false, having read no node of the store
AnsweredFalseUnread(e) ==
    /\ IsOkWith(res[e].out, FALSE)
    /\ CountOf(calls[e], "get_many") = 0

\* the statement for every proof with an index of the tree, whatever its
\* number of peaks
C28_WrongSiblingsCountIsFalse ==
    \A e \in DOMAIN pc :
        (/\ IsVerifyOp(res[e].op)
         /\ ~IndexOutside(e)
         /\ SiblingsCountWrong(e)) => AnsweredFalseUnread(e)

\* C28: a proof with the expected number of peaks and an index of the tree
\* whose number of siblings differs from the height of the mountain that
\* holds the index makes verify_proof (and verify_proof_stateless) return
\* Ok(false) before it hashes or reads a peak: never an error, not even for a
\* value the hasher refuses, and never Ok(true)
C28_WrongSiblingsCountIsFalseOnceTheShapeIsChecked ==
    \A e \in DOMAIN pc :
        (/\ IsVerifyOp(res[e].op)
         /\ ~PeaksCountWrong(e)
         /\ ~IndexOutside(e)
         /\ SiblingsCountWrong(e)) => AnsweredFalseUnread(e)

\* a proof with a sibling and one appended, for a value the hasher refuses,
\* was answered false
C28_Witness ==
    \E e \in DOMAIN pc :
        /\ res[e].op = "verify_proof"
        /\ res[e].args.attack = "extra_sibling_no_field_value"
        /\ Len(res[e].args.proof.siblings_hashes) >= 2
        /\ ~PeaksCountWrong(e)
        /\ IsOkWith(res[e].out, FALSE)

----------------------------------------------------------------------------
(* C29: the empty batch                                                    *)

EmptyBatchStep(e) ==
    /\ (batch_append(e, <<>>) \/ batch_append_in_tx(e, <<>>)) =>
           res'[e].out.err = "EmptyBatchAppend"
    /\ (res'[e] # res[e] /\ res'[e].out.err = "EmptyBatchAppend") =>
           /\ res'[e].op \in {"batch_append", "batch_append_in_tx"}
           /\ calls'[e] = <<>>
           /\ store' = store
           /\ tx' = tx
           /\ cached' = cached
           /\ pc'[e] = "idle"
           /\ hist' = hist

\* C29: batch_append and batch_append_in_tx with no values fail with
\* EmptyBatchAppend, and the call that fails so has made no store call, has
\* left the store and the open transaction as they were and has kept the
\* cached counts of the engine
C29_EmptyBatchTouchesNothing == [][\A e \in DOMAIN pc : EmptyBatchStep(e)]_vars

\* an empty batch was refused in an open transaction by an engine that holds
\* cached counts
C29_Witness ==
    \E e \in DOMAIN pc :
        /\ res[e].op = "batch_append_in_tx"
        /\ res[e].out.err = "EmptyBatchAppend"
        /\ tx.open
        /\ cached[e].some
        /\ Len(hist[e]) >= 1

----------------------------------------------------------------------------
(* One engine, Keccak, and a client of the store that puts a value of the  *)
(* wrong type under one key of the tree                                    *)

\* the value under key k of store s has the tag of the other kind of key
IsMistyped(s, k) ==
    /\ k \in DOMAIN s
    /\ \/ k[2] \in {"LeafCount", "ElementsCount"} /\ s[k][1] = "Hash"
       \/ k[2] \in {"RootHash", "NodeHash"} /\ s[k][1] = "U64"

\* store.set(key, value) by a client that takes the key for one of the other
\* kind; one key at a time
Mistype(key) ==
    /\ \A k \in DOMAIN store : ~IsMistyped(store, k)
    /\ store' = store_set(store, key,
                          IF key[2] \in {"LeafCount", "ElementsCount"}
                          THEN Hash(ZERO_HASH) ELSE U64(0))
    /\ UNCHANGED <<cached, pc, pend, res, hist, lastCall, mmrId, hasher, limit,
                   failed, drifted, calls, tx, base>>

NextMistyped ==
    \/ \E key \in DOMAIN store : Mistype(key)
    \/ \E e \in DOMAIN pc : append(e, Word(1))
    \/ \E e \in DOMAIN pc, values \in SeqsUpTo({Word(1)}, MaxBatch) : batch_append(e, values)
    \/ \E e \in DOMAIN pc : AppendRead(e)
    \/ \E e \in DOMAIN pc : AppendWrite(e)
    \/ \E e \in DOMAIN pc :
           \E element_index \in 1..leaf_count_to_mmr_size(Len(hist[e])),
              elements_count \in SizeOptions(e) :
               GetProofOf(e, element_index, elements_count)
    \/ \E e \in DOMAIN pc : VerifyProof(e, "none")
    \/ \E e \in DOMAIN pc :
           \E elements_count \in SizeOptions(e) : GetPeaks(e, elements_count)
    \/ \E e \in DOMAIN pc :
           \E elements_count \in SizeOptions(e) : BagThePeaks(e, elements_count)
    \/ \E e \in DOMAIN pc : GetRootHash(e)
    \/ \E e \in DOMAIN pc : GetLeavesCount(e)
    \/ \E e \in DOMAIN pc : GetElementsCount(e)

InitMistyped == InitWith(1 :> 1, "keccak", MaxLeaves - 1)

SpecMistyped == InitMistyped /\ [][NextMistyped]_vars

----------------------------------------------------------------------------
(* C30: values of the wrong type                                           *)

\* the store calls engine e makes in the step
CallsOfStep(e) ==
    IF pc[e] = "idle" THEN calls'[e]
    ELSE SubSeq(calls'[e], Len(calls[e]) + 1, Len(calls'[e]))

\* the keys engine e reads in the step
KeysReadInStep(e) ==
    UNION {{CallsOfStep(e)[i].keys[j] : j \in 1..Len(CallsOfStep(e)[i].keys)} :
               i \in {n \in 1..Len(CallsOfStep(e)) :
                          CallsOfStep(e)[n].call \in {"get", "get_many"}}}

MistypedStep(e) ==
    (<<pc[e], res[e], calls[e]>>' # <<pc[e], res[e], calls[e]>>) =>
        LET mistyped == {k \in KeysReadInStep(e) : IsMistyped(store, k)}
        IN  /\ mistyped # {} =>
                /\ res'[e].out.err = "TypeMismatch"
                /\ res'[e].out.val.key \in mistyped
                /\ res'[e].out.val.actual = store[res'[e].out.val.key]
                /\ pc'[e] = "idle"
                /\ store' = store
                /\ CountOf(calls'[e], "set_many") = 0
            /\ (res'[e] # res[e] /\ res'[e].out.err = "TypeMismatch") => mistyped # {}

\* C30: an operation of the engine that reads a key whose value has the tag
\* of the other kind (a Hash under LeafCount or ElementsCount, a U64 under
\* RootHash or NodeHash) fails with TypeMismatch naming that key and the
\* value found, and writes nothing; no other operation fails so
C30_MistypedValuesAreTypeMismatch == [][\A e \in DOMAIN pc : MistypedStep(e)]_vars

\* an append with cached counts found a Hash under the leaf count
C30_Witness ==
    \E e \in DOMAIN pc :
        /\ IsAppendOp(res[e].op)
        /\ cached[e].some
        /\ Len(hist[e]) >= 1
        /\ res[e].out.err = "TypeMismatch"
        /\ res[e].out.val.key = leaf_count_key(mmrId[e])
        /\ IsMistyped(store, leaf_count_key(mmrId[e]))

----------------------------------------------------------------------------
(* One engine, Keccak: appends that the caller may abandon at a store call *)

NextCancel ==
    \/ \E e \in DOMAIN pc, value \in Values : append(e, value)
    \/ \E e \in DOMAIN pc, values \in Batches : batch_append(e, values)
    \/ \E e \in DOMAIN pc : AppendRead(e)
    \/ \E e \in DOMAIN pc : AppendWrite(e)
    \/ \E e \in DOMAIN pc : AppendWriteFails(e)
    \/ \E e \in DOMAIN pc : Cancel(e)

InitCancel == InitWith(1 :> 1, "keccak", MaxLeaves - 1)

SpecCancel == InitCancel /\ [][NextCancel]_vars

----------------------------------------------------------------------------
(* C31: the one write of an append                                         *)

\* the trace ends with its only mutation, a set_many
EndsWithItsOnlyWrite(trace) ==
    /\ trace # <<>>
    /\ trace[Len(trace)].call = "set_many"
    /\ \A i \in 1..(Len(trace) - 1) : trace[i].call \in {"get", "get_many"}

OneWriteStep(e) ==
    /\ store' # store =>
           /\ pc[e] = "write" /\ pc'[e] = "idle"
           /\ IsAppendOp(res'[e].op) /\ IsOk(res'[e].out)
           /\ store' = store_set_many(store, pend[e].staged_writes)
    /\ (pc[e] = "write" /\ IsAppendOp(res'[e].op)) => EndsWithItsOnlyWrite(calls'[e])
    /\ (pc[e] # "write" /\ pc'[e] # pc[e]) =>
           \A i \in 1..Len(calls'[e]) : calls'[e][i].call \in {"get", "get_many"}
    /\ (pc[e] # "idle" /\ res'[e].op = "cancelled") =>
           /\ store' = store
           /\ CountOf(calls'[e], "set_many") = 0

\* C31: the store changes only in the step that completes the set_many of an
\* append or batch_append, and then by exactly the batch that was staged
\* before the call suspended on it; the set_many is the last store call of
\* the operation and its only mutation; a call abandoned at the get_many or
\* with its batch staged, before the set_many, leaves the store as it was
C31_OnlyTheFinalSetManyWrites == [][\A e \in DOMAIN pc : OneWriteStep(e)]_vars

\* a staged batch was abandoned before its set_many, on a tree that holds leaves
C31_Witness ==
    \E e \in DOMAIN pc :
        /\ res[e].op = "cancelled"
        /\ res[e].args.at = "write"
        /\ Len(hist[e]) >= 1
        /\ store = SoloStore(hasher, mmrId[e], hist[e])

----------------------------------------------------------------------------
(* One engine at a time on one mmr_id, either hasher: appends that succeed, *)
(* fail or are abandoned, and create_from_peaks, which starts from a new   *)
(* engine and whose writes may fail one by one                             *)

NextCache ==
    \/ \E e \in DOMAIN pc, value \in Values : append(e, value)
    \/ \E e \in DOMAIN pc : AppendRead(e)
    \/ \E e \in DOMAIN pc : AppendWrite(e)
    \/ \E e \in DOMAIN pc : AppendWriteFails(e)
    \/ \E e \in DOMAIN pc : Cancel(e)
    \/ \E e \in DOMAIN pc : New(e)
    \/ \E e \in DOMAIN pc :
           \E elements_count \in 0..MaxCreateSize :
               \E fail_at \in 0..(Len(find_peaks(elements_count)) + 3) :
                   /\ ~cached[e].some
                   /\ CreateFromPeaks(e, PeaksOfOnes(elements_count), elements_count,
                                      fail_at)

InitCache == \E h \in {"keccak", "poseidon"} : InitWith(1 :> 1, h, MaxLeaves - 1)

SpecCache == InitCache /\ [][NextCache]_vars

----------------------------------------------------------------------------
(* C32: the cached counts mirror the store                                 *)

\* the count under key k of store s, 0 when the key is absent
PersistedCount(s, k) == IF k \in DOMAIN s THEN s[k][2] ELSE 0

\* the cached counts of engine e are the persisted ones
CacheMirrorsStore(e) ==
    /\ cached[e].leaves_count = PersistedCount(store, leaf_count_key(mmrId[e]))
    /\ cached[e].elements_count = PersistedCount(store, elements_count_key(mmrId[e]))

\* C32: with one writer per mmr_id, the cached counts of an engine, when it
\* has any, are the persisted LeafCount and ElementsCount of its mmr_id (0
\* for an absent key) between operations; while an append waits for its
\* set_many the cache still holds the counts it read and not the new ones;
\* after a failed or abandoned append it holds the persisted counts; and an
\* engine has the counts of create_from_peaks only when all its writes and
\* the root are in the store
C32_CachedCountsMirrorTheStore ==
    \A e \in DOMAIN pc :
        /\ cached[e].some => CacheMirrorsStore(e)
        /\ pc[e] = "write" =>
               /\ cached[e].some
               /\ cached[e].elements_count = pend[e].counts.elements_count
               /\ cached[e].elements_count < pend[e].result.elements_count
        /\ (res[e].op = "create_from_peaks" /\ cached[e].some) =>
               /\ IsOk(res[e].out)
               /\ root_hash_key(mmrId[e]) \in DOMAIN store

\* an append failed at its set_many on a tree that holds leaves, and the
\* engine holds the counts of the leaves before it
C32_Witness ==
    \E e \in DOMAIN pc :
        /\ pc[e] = "idle"
        /\ IsAppendOp(res[e].op)
        /\ res[e].out.err = "Internal"
        /\ cached[e].some
        /\ cached[e].leaves_count >= 2
        /\ CacheMirrorsStore(e)

\* ---------------------------------------------------------------------
\* The helpers of a proof, find_siblings and get_peak_info, over every
\* tree size up to MaxSize and the sizes within OverflowMargin of U64_MAX.
\* ---------------------------------------------------------------------

TreeSizes == (0..MaxSize) \cup ((U64_MAX - OverflowMargin)..U64_MAX)

\* a caller holding an element index and a tree size, before its call
Holding(element_index, elements_count) ==
    [op |-> "holding",
     args |-> [element_index |-> element_index, elements_count |-> elements_count],
     out |-> Ok(<<>>)]

FindSiblingsOf(e, element_index, elements_count) ==
    /\ res[e] = Holding(element_index, elements_count)
    /\ res' = [res EXCEPT ![e] = [op |-> "find_siblings",
                  args |-> [element_index |-> element_index, elements_count |-> elements_count],
                  out |-> find_siblings(element_index, elements_count)]]
    /\ UNCHANGED <<store, cached, pc, pend, hist, lastCall, mmrId, hasher, limit,
                   failed, drifted, calls, tx, base>>

GetPeakInfoOf(e, elements_count, element_index) ==
    /\ res[e] = Holding(element_index, elements_count)
    /\ res' = [res EXCEPT ![e] = [op |-> "get_peak_info",
                  args |-> [element_index |-> element_index, elements_count |-> elements_count],
                  out |-> Ok(get_peak_info(elements_count, element_index))]]
    /\ UNCHANGED <<store, cached, pc, pend, hist, lastCall, mmrId, hasher, limit,
                   failed, drifted, calls, tx, base>>

NextMountains ==
    \/ \E e \in DOMAIN pc :
           FindSiblingsOf(e, res[e].args.element_index, res[e].args.elements_count)
    \/ \E e \in DOMAIN pc :
           GetPeakInfoOf(e, res[e].args.elements_count, res[e].args.element_index)

InitMountains ==
    \E elements_count \in TreeSizes :
        \E element_index \in 0..elements_count :
            /\ store = EmptyStore
            /\ mmrId = 1 :> 1
            /\ hasher = "keccak"
            /\ limit = MaxLeaves
            /\ cached = 1 :> NoCounts
            /\ pc = 1 :> "idle"
            /\ pend = 1 :> NoPend
            /\ res = 1 :> Holding(element_index, elements_count)
            /\ hist = 1 :> <<>>
            /\ lastCall = 1 :> NoCall
            /\ failed = 1 :> NoFailed
            /\ drifted = 1 :> "no"
            /\ calls = 1 :> <<>>
            /\ tx = NoTx
            /\ base = 1 :> NoBase

SpecMountains == InitMountains /\ [][NextMountains]_vars

\* the call asks for the siblings of a leaf of a tree of a valid size
SiblingsOfALeaf(e) ==
    /\ res[e].op = "find_siblings"
    /\ IsMmrSize(res[e].args.elements_count)
    /\ res[e].args.element_index >= 1
    /\ res[e].args.element_index <= res[e].args.elements_count
    /\ IsLeafElementIndex(res[e].args.element_index)

\* distinct indices of the tree, none the element's own, as many as the
\* height of the element's mountain
SiblingsWellFormed(siblings, element_index, elements_count) ==
    /\ \A j, k \in 1..Len(siblings) : j # k => siblings[j] # siblings[k]
    /\ \A j \in 1..Len(siblings) :
           /\ siblings[j] >= 1
           /\ siblings[j] <= elements_count
           /\ siblings[j] # element_index
    /\ Len(siblings) = get_peak_info(elements_count, element_index)[2]

\* C33: for every valid MMR size s and every leaf element index i <= s,
\* find_siblings(i, s) succeeds, its indices are distinct, within 1..s and
\* other than i, and there are as many as the height get_peak_info(s, i)
\* returns.
C33_SiblingsOfEveryLeaf ==
    \A e \in DOMAIN pc :
        SiblingsOfALeaf(e) =>
            /\ IsOk(res[e].out)
            /\ SiblingsWellFormed(res[e].out.val, res[e].args.element_index,
                                  res[e].args.elements_count)

\* the same on every tree that is smaller than the largest size of a u64
C33_SiblingsBelowTheFullTree ==
    \A e \in DOMAIN pc :
        SiblingsOfALeaf(e) /\ res[e].args.elements_count < U64_MAX =>
            /\ IsOk(res[e].out)
            /\ SiblingsWellFormed(res[e].out.val, res[e].args.element_index,
                                  res[e].args.elements_count)

\* the first leaf of the tree of U64_MAX elements has no siblings to give
C33_FullTreeOverflows ==
    \A e \in DOMAIN pc :
        SiblingsOfALeaf(e) /\ res[e].args.elements_count = U64_MAX =>
            res[e].out.err = "Overflow"

\* the call asks for the mountain of an element of a tree of a valid size
PeakInfoOfAnElement(e) ==
    /\ res[e].op = "get_peak_info"
    /\ IsMmrSize(res[e].args.elements_count)
    /\ res[e].args.element_index >= 1
    /\ res[e].args.element_index <= res[e].args.elements_count

\* (ord, height) names the mountain of the element among the peaks
NamesTheMountain(ord, height, element_index, peaks) ==
    /\ ord < Len(peaks)
    /\ LET previous == IF ord = 0 THEN 0 ELSE peaks[ord]
       IN  /\ previous < element_index
           /\ element_index <= peaks[ord + 1]
           /\ peaks[ord + 1] - previous = Pow2(height + 1) - 1

\* C34: for every valid MMR size s and every element index i in 1..s,
\* get_peak_info(s, i) returns (ord, height) with ord < len(find_peaks(s)),
\* i above the previous peak and at most find_peaks(s)[ord], and a mountain
\* of 2^(height+1) - 1 elements (height 0 for an isolated leaf).
C34_PeakInfoNamesTheMountain ==
    \A e \in DOMAIN pc :
        PeakInfoOfAnElement(e) =>
            NamesTheMountain(res[e].out.val[1], res[e].out.val[2],
                             res[e].args.element_index,
                             find_peaks(res[e].args.elements_count))

\* an element of the second mountain, of three elements, and the only
\* element of a third one
C34_Witness ==
    \E e \in DOMAIN pc :
        /\ PeakInfoOfAnElement(e)
        /\ res[e].args.elements_count = 11
        /\ res[e].args.element_index = 9
        /\ res[e].out.val = <<1, 1>>

----------------------------------------------------------------------------
(* C35: what the append of one leaf writes                                 *)

\* the NodeHash entries of a staged batch, in the order staged
NodeEntries(staged_writes) ==
    SelectSeq(staged_writes, LAMBDA entry : entry[1][2] = "NodeHash")

\* one leaf is staged on a tree of L leaves: the leaf and then
\* trailing_ones(L) parents, at the indices after the elements_count read
OneLeafStaged(e) ==
    LET L == pend[e].counts.leaves_count
        before == pend[e].counts.elements_count
        nodes == NodeEntries(pend[e].staged_writes)
    IN  /\ Len(nodes) = 1 + trailing_ones(L)
        /\ nodes[1] = <<node_key(mmrId[e], before + 1), Hash(pend[e].values[1])>>
        /\ \A j \in 1..Len(nodes) : nodes[j][1] = node_key(mmrId[e], before + j)
        /\ pend[e].result.elements_count = before + 1 + trailing_ones(L)
        /\ pend[e].result.leaves_count = L + 1
        /\ leaf_count_to_mmr_size(L + 1) - leaf_count_to_mmr_size(L)
               = 1 + leaf_count_to_append_no_merges(L)

\* C35: appending one leaf to a tree with L leaves stages exactly
\* 1 + trailing_ones(L) node entries, the leaf followed by the parents, so
\* elements_count grows by 1 + trailing_ones(L), which is
\* leaf_count_to_mmr_size(L + 1) - leaf_count_to_mmr_size(L); and no merge
\* finds fewer than two hashes on the peaks stack.
C35_OneLeafWritesItsMerges ==
    \A e \in DOMAIN pc :
        /\ pc[e] = "write" /\ Len(pend[e].values) = 1 => OneLeafStaged(e)
        /\ res[e].out.err # "NoHashFoundForIndex"

\* the fourth leaf is staged with its two parents
C35_Witness ==
    \E e \in DOMAIN pc :
        /\ pc[e] = "write"
        /\ Len(pend[e].values) = 1
        /\ pend[e].counts.leaves_count = 3
        /\ Len(NodeEntries(pend[e].staged_writes)) = 3

----------------------------------------------------------------------------
(* C36: the bag of the peaks, on trees of up to three peaks                *)

MaxBagSize == 11

\* one hash per peak of the size, each different from the others and from
\* the values appended
DistinctPeaks(elements_count) ==
    [j \in 1..Len(find_peaks(elements_count)) |-> Word(NumValues + j)]

NextBag ==
    \/ \E e \in DOMAIN pc, elements_count \in 0..MaxBagSize :
           CreateFromPeaksOf(e, DistinctPeaks(elements_count), elements_count)
    \/ \E e \in DOMAIN pc, value \in Values : append(e, value)
    \/ \E e \in DOMAIN pc : AppendRead(e)
    \/ \E e \in DOMAIN pc : AppendWrite(e)
    \/ \E e \in DOMAIN pc : BagThePeaks(e, None)
    \/ \E e \in DOMAIN pc : GetRootHash(e)

InitBag == \E h \in {"keccak", "poseidon"} : InitWith(1 :> 1, h, MaxLeaves - 2)

SpecBag == InitBag /\ [][NextBag]_vars

\* hash_pair(p_1, hash_pair(p_2, .. hash_pair(p_{n-1}, p_n))), H_ZERO for no
\* peak and p_1 for one
RECURSIVE RightFold(_, _)
RightFold(h, peaks) ==
    IF peaks = <<>> THEN ZERO_HASH
    ELSE IF Len(peaks) = 1 THEN peaks[1]
    ELSE hash_pair(h, peaks[1], RightFold(h, Tail(peaks))).val

\* the hashes stored at the peaks of the persisted size, left to right
StoredPeaks(e) ==
    LET peaks == find_peaks(PersistedElementsCount(store, e))
    IN  [j \in 1..Len(peaks) |-> store[node_key(mmrId[e], peaks[j])][2]]

\* C36: the bag of the peaks p_1..p_n is the right-associative fold, H_ZERO
\* for n = 0, p_1 for n = 1 and hash_pair(p_1, hash_pair(p_2, ..
\* hash_pair(p_{n-1}, p_n))) otherwise; bag_the_peaks returns it and the
\* stored root is hash_count_and_bag of it, over the peaks from left to right.
C36_BagIsTheRightFold ==
    \A e \in DOMAIN pc :
        /\ res[e].op = "bag_the_peaks" /\ IsOk(res[e].out) =>
               res[e].out.val = RightFold(hasher, StoredPeaks(e))
        /\ root_hash_key(mmrId[e]) \in DOMAIN store =>
               store[root_hash_key(mmrId[e])] =
                   Hash(hash_count_and_bag(hasher, PersistedElementsCount(store, e),
                                           RightFold(hasher, StoredPeaks(e))).val)

\* three peaks p_1, p_2, p_3 bagged as hash_pair(p_1, hash_pair(p_2, p_3))
C36_Witness ==
    \E e \in DOMAIN pc :
        /\ res[e].op = "bag_the_peaks"
        /\ Len(StoredPeaks(e)) = 3
        /\ IsOk(res[e].out)
        /\ res[e].out.val =
               hash_pair(hasher, StoredPeaks(e)[1],
                   hash_pair(hasher, StoredPeaks(e)[2], StoredPeaks(e)[3]).val).val
        /\ Len(hist[e]) = 1

----------------------------------------------------------------------------
(* C37: what appends never undo                                            *)

\* a batch_append of engine e returns Ok in this step
BatchAppendReturnsOk(e) ==
    /\ res'[e] # res[e]
    /\ res'[e].op = "batch_append"
    /\ IsOk(res'[e].out)

\* one step of the store under the appends of its writer
AppendsOnlyAdd ==
    /\ DOMAIN store \subseteq DOMAIN store'
    /\ \A k \in DOMAIN store : k[2] = "NodeHash" => store'[k] = store[k]
    /\ \A e \in DOMAIN pc :
           /\ PersistedCount(store', leaf_count_key(mmrId[e]))
                  >= PersistedCount(store, leaf_count_key(mmrId[e]))
           /\ PersistedCount(store', elements_count_key(mmrId[e]))
                  >= PersistedCount(store, elements_count_key(mmrId[e]))
           /\ BatchAppendReturnsOk(e) =>
                  LET m == IF pc[e] = "write" THEN Len(pend[e].values) ELSE 0
                  IN  /\ res'[e].out.val.appended_count = m
                      /\ PersistedCount(store', leaf_count_key(mmrId[e]))
                             = PersistedCount(store, leaf_count_key(mmrId[e])) + m
                      /\ m > 0 => res'[e].out.val.leaves_count
                             = PersistedCount(store', leaf_count_key(mmrId[e]))

\* C37: with a single writer per mmr_id, over any sequence of append and
\* batch_append calls no key is ever deleted, a NodeHash entry never changes
\* its value once written, leaves_count and elements_count never decrease,
\* and every successful batch_append of m values raises leaves_count by
\* exactly m.
C37_AppendsOnlyAdd == [][AppendsOnlyAdd]_vars

\* a batch of two values has been appended to a tree of one leaf
C37_Witness ==
    \E e \in DOMAIN pc :
        /\ res[e].op = "batch_append"
        /\ IsOk(res[e].out)
        /\ res[e].out.val.appended_count = 2
        /\ PersistedCount(store, leaf_count_key(mmrId[e])) = 3
        /\ PersistedCount(store, elements_count_key(mmrId[e])) = 4

----------------------------------------------------------------------------
(* C38: the counts that create_from_peaks persists                         *)

\* the NodeHash keys stored under the mmr_id of engine e
StoredNodeKeys(e) ==
    {k \in DOMAIN store : k[1] = mmrId[e] /\ k[2] = "NodeHash"}

\* the persisted counts are those of a tree, with one stored hash per peak
CountsOfATree(e) ==
    LET leaves_count == PersistedCount(store, leaf_count_key(mmrId[e]))
        elements_count == PersistedCount(store, elements_count_key(mmrId[e]))
    IN  /\ elements_count = 2 * leaves_count - count_ones(leaves_count)
        /\ Cardinality(StoredNodeKeys(e)) = count_ones(leaves_count)

\* create_from_peaks has just returned Ok
CreatedFromPeaks(e) ==
    /\ res[e].op = "create_from_peaks"
    /\ IsOk(res[e].out)

\* C38: after every successful create_from_peaks(peaks_hashes,
\* elements_count), whatever elements_count it accepts, the persisted counts
\* satisfy elements_count = 2 * leaves_count - popcount(leaves_count) and the
\* number of stored peak hashes is popcount(leaves_count).
C38_CreateFromPeaksPersistsATree ==
    \A e \in DOMAIN pc : CreatedFromPeaks(e) => CountsOfATree(e)

\* the same for the calls whose elements_count is the size of a tree
C38_ValidSizesPersistATree ==
    \A e \in DOMAIN pc :
        CreatedFromPeaks(e) /\ IsMmrSize(res[e].args.elements_count) =>
            CountsOfATree(e)

\* a count that is no tree size is accepted with an empty list of peaks
C38_InvalidSizeAccepted ==
    \A e \in DOMAIN pc :
        CreatedFromPeaks(e) /\ ~IsMmrSize(res[e].args.elements_count) =>
            /\ res[e].args.peaks_hashes = <<>>
            /\ ~CountsOfATree(e)

----------------------------------------------------------------------------
(* C39: proofs of the elements older than the snapshot                     *)
(* Engine 1 is the tree A, engine 2 the tree B created from A's peaks and   *)
(* extended with the values A appends later.                                *)

\* the elements_count of A when B was created
SnapshotSize(b) == leaf_count_to_mmr_size(SnapshotLeaves(b))

\* the value A appended as the leaf at an element index
ValueInA(a, element_index) ==
    hist[a][element_index_to_leaf_index(element_index).val + 1]

\* verify_proof(proof, v, None) on B, for the proof B has just returned and
\* the value v the element has in A
VerifyOld(a, b) ==
    /\ res[b].op = "get_proof"
    /\ IsOk(res[b].out)
    /\ LET args == [proof |-> res[b].out.val,
                    element_index |-> res[b].out.val.element_index,
                    element_value |-> ValueInA(a, res[b].out.val.element_index),
                    elements_count |-> None]
       IN  Reads(b, "verify_proof", args,
                 verify_proof(store, mmrId[b], hasher, args.proof,
                              args.element_value, args.elements_count),
                 verify_proof_calls(store, mmrId[b], hasher, args.proof,
                                    args.element_value, args.elements_count))

NextOldProofs ==
    \/ \E a \in {1}, value \in Values : append(a, value)
    \/ \E a \in {1}, b \in {2} : Snapshot(a, b)
    \/ \E a \in {1}, b \in {2} :
           /\ base[b].some
           /\ SnapshotLeaves(b) + Len(hist[b]) + 1 <= Len(hist[a])
           /\ append(b, Replay(a, b, 1)[1])
    \/ \E e \in DOMAIN pc : AppendRead(e)
    \/ \E e \in DOMAIN pc : AppendWrite(e)
    \/ \E b \in {2}, element_index \in 1..leaf_count_to_mmr_size(MaxLeaves) :
           /\ base[b].some
           /\ element_index <= SnapshotSize(b)
           /\ IsLeafElementIndex(element_index)
           /\ GetProofOf(b, element_index, None)
    \/ \E a \in {1}, b \in {2} : VerifyOld(a, b)

InitOldProofs == InitWith(<<1, 2>>, "keccak", MaxLeaves)

SpecOldProofs == InitOldProofs /\ [][NextOldProofs]_vars

\* B was asked about a leaf that A held when B was created
AboutAnOldLeaf(b) ==
    /\ base[b].some
    /\ res[b].op \in {"get_proof", "verify_proof"}
    /\ res[b].args.element_index >= 1
    /\ res[b].args.element_index <= SnapshotSize(b)
    /\ IsLeafElementIndex(res[b].args.element_index)

\* the leaf is the top of a mountain of the snapshot
IsSnapshotPeak(b, element_index) ==
    \E j \in 1..Len(find_peaks(SnapshotSize(b))) :
        find_peaks(SnapshotSize(b))[j] = element_index

\* get_proof gave an error, or verify_proof did not answer Ok(true)
NotProven(b) ==
    IF res[b].op = "get_proof" THEN ~IsOk(res[b].out)
    ELSE ~IsOkWith(res[b].out, TRUE)

\* the claim as stated: no leaf at or below the snapshot's elements_count is
\* ever verified on the tree created from the peaks
C39_NoOldLeafIsProven ==
    \A b \in {2} :
        AboutAnOldLeaf(b) /\ res[b].op = "verify_proof" => NotProven(b)

\* C39: in a tree created by create_from_peaks from the snapshot of a tree A
\* and extended by appends, for every leaf index i at or below the snapshot's
\* elements_count that is not itself a peak of the snapshot, get_proof(i, None)
\* returns an error or a proof that verify_proof does not accept with the
\* value of the leaf in A.
C39_NoOldLeafBelowAPeakIsProven ==
    \A b \in {2} :
        AboutAnOldLeaf(b) /\ ~IsSnapshotPeak(b, res[b].args.element_index) =>
            NotProven(b)

\* the first of three leaves of the snapshot, asked for after an append to B
C39_Witness ==
    \E b \in {2} :
        /\ AboutAnOldLeaf(b)
        /\ SnapshotLeaves(b) = 3
        /\ res[b].args.element_index = 1
        /\ Len(hist[b]) = 1
        /\ res[b].out.err = "NoHashFoundForIndex"

\* the third leaf, a peak of the snapshot, is proven after an append to B
C39_OldPeakIsProven ==
    \E b \in {2} :
        /\ AboutAnOldLeaf(b)
        /\ res[b].op = "verify_proof"
        /\ SnapshotLeaves(b) = 3
        /\ res[b].args.element_index = 4
        /\ Len(hist[b]) = 1
        /\ IsOkWith(res[b].out, TRUE)

----------------------------------------------------------------------------
(* C40: the keys of the batch staged by an append                          *)

\* the batch of engine e names the element indices after the elements_count
\* read, one NodeHash key each and in order, then the three metadata keys
StagedKeysInOrder(e) ==
    LET keys == entry_keys(pend[e].staged_writes)
        before == pend[e].counts.elements_count
        n == pend[e].result.elements_count - before
    IN  /\ n >= 1
        /\ Len(keys) = n + 3
        /\ \A j \in 1..n : keys[j] = StoreKey(mmrId[e], "NodeHash", before + j)
        /\ keys[n + 1] = StoreKey(mmrId[e], "ElementsCount", 0)
        /\ keys[n + 2] = StoreKey(mmrId[e], "RootHash", 0)
        /\ keys[n + 3] = StoreKey(mmrId[e], "LeafCount", 0)
        /\ \A j, k \in 1..Len(keys) : j # k => keys[j] # keys[k]

\* C40: the batch staged by one append or batch_append holds no key twice:
\* one NodeHash entry for each element index from the elements_count before
\* the call plus one to the new elements_count, without gaps and in
\* increasing order, then one entry each for ElementsCount, RootHash and
\* LeafCount, all under the mmr_id of the engine.
C40_StagedBatchNamesEachKeyOnce ==
    \A e \in DOMAIN pc : pc[e] = "write" => StagedKeysInOrder(e)

\* two values staged on a tree of one leaf: nodes 2, 3, 4 and the metadata
C40_Witness ==
    \E e \in DOMAIN pc :
        /\ pc[e] = "write"
        /\ pend[e].op = "batch_append"
        /\ Len(pend[e].values) = 2
        /\ pend[e].counts.elements_count = 1
        /\ Len(pend[e].staged_writes) = 6

====
